---- MODULE Spec2Model ----
(***************************************************************************)
(* Lane evaluation engine of the note-reading game.                        *)
(*                                                                         *)
(* The repository ships three evaluators of the same design:               *)
(*   "core"  src/src/engine/piano-core.js   onNoteOn, queue per lane       *)
(*   "queue" src/src/midi/lane-system.ts    handleMidiNoteOn, laneStates   *)
(*   "one"   src/src/midi/lane-system.ts    handleNoteOnOneAtATime, lanes  *)
(* A behaviour drives one of them; `unit` says which.  The two evaluators  *)
(* of lane-system.ts share the game's global life counters.                *)
(***************************************************************************)
EXTENDS Integers, Sequences, FiniteSets, TLC

\* ------------------------------------------------------------ constants
BASS_MAX == 59
TREBLE_MIN == 60
CHORD_WINDOW_MS == 100
CORE_TIMEOUT_SLACK == 10
QUEUE_TIMEOUT_SLACK == 5
ONE_TIMEOUT_MS == 100
START_LIVES == 3
RANGE_LOW == 21
RANGE_HIGH == 96
MONO_LOW == 36
MONO_HIGH == 84

\* --------------------------------------------------------------- bounds
MaxQueue == 2      \* targets a lane's queue holds at once
MaxIds == 2        \* targets pushed to piano-core in one behaviour
MaxSpawns == 4     \* targets spawned into lane-system in one behaviour
MaxInits == 2      \* (re)initializations in one behaviour
MaxToggles == 1    \* uses of the piano toggle in one behaviour
MaxLate == 5       \* a due timer fires at most this much late (ms)
MaxLivesOpt == 1   \* largest life count passed to piano-core's init
MaxMidi == 127     \* largest pitch routed
MaxStamps == 1     \* instants Date.now() moves through in a one-at-a-time behaviour
FineStep == 5      \* grain of time (ms) once a timeout is about to be due
MaxMoving == 2     \* targets movingNotes holds at once
MaxShown == 3      \* targets the game puts on screen in one round
MaxLevel == 22     \* highest level the game reaches

LaneIds == {"bass", "treble", "mono"}
Clefs == {"bass", "treble"}
Pitches == {55, 57, 59, 60, 62}
OnePitches == {36, 40, 41, 42, 43, 53, 61, 79}
CoarseStep == CHORD_WINDOW_MS
TickSteps == {FineStep, CoarseStep}
UNDEF == -1

\* -------------------------------------------------------------- helpers
Max(a, b) == IF a >= b THEN a ELSE b
Min(a, b) == IF a <= b THEN a ELSE b
SeqToSet(s) == {s[i] : i \in 1..Len(s)}
\* Array.prototype.shift: removes the head; an empty array stays empty.
Shift(q) == IF q = <<>> THEN <<>> ELSE Tail(q)

Melody(p, i) == [kind |-> "melody", midi |-> p, mids |-> <<>>, id |-> i]
Chord(ms, i) == [kind |-> "chord", midi |-> UNDEF, mids |-> ms, id |-> i]
NoNote ==
  [stage |-> "idle", midi |-> UNDEF, ev |-> <<>>,
   g |-> [lives |-> START_LIVES, bass |-> START_LIVES, treble |-> START_LIVES]]
NotGenerated == [fn |-> "none", lane |-> "none", min |-> 0, max |-> 0, mids |-> <<>>]
NoTarget == [kind |-> "none", midi |-> UNDEF, mids |-> <<>>, id |-> 0]
\* new Set(t.mids)
Tones(t) == SeqToSet(t.mids)

\* Targets fed to the lanes: the bass lane gets melodies and chords, the treble
\* lane melodies only, the mono lane both.
LaneTargets(l, i) ==
  IF l = "bass" THEN {Melody(57, i), Chord(<<55, 59>>, i)}
  ELSE IF l = "treble" THEN {Melody(60, i)}
  ELSE {Melody(57, i), Melody(60, i), Chord(<<55, 59>>, i)}

\* Time is kept relative: a window start or a timer holds the milliseconds
\* elapsed since the instant performance.now() was read for it.
NoRT == [open |-> FALSE, activeId |-> 0, sinceStart |-> UNDEF, collected |-> {}]
OpenRT(i) == [open |-> TRUE, activeId |-> i, sinceStart |-> 0, collected |-> {}]

\* a callback invoked for target t
Ev(n, l, t, why, lives) ==
  [n |-> n, lane |-> l, id |-> t.id, kind |-> t.kind, why |-> why, lives |-> lives]

VARIABLES
  unit,            \* evaluator driven by this behaviour
  feed,            \* which targets the caller feeds to the lanes
  nextId,          \* next fresh target id
  inits,           \* (re)initializations so far
  stamp,           \* the instant: Date.now() and performance.now(), counted in ticks
  timers,          \* pending setTimeout callbacks
  piano,           \* piano-core state.piano
  cLanes,          \* piano-core state.lanes
  pianoModeActive, \* globalThis.pianoModeActive
  gLives,          \* globalThis.lives
  gBassLives,      \* globalThis.bassLives
  gTrebleLives,    \* globalThis.trebleLives
  score,           \* globalThis.score
  laneStates,      \* lane-system laneStates map
  lanes,           \* lane-system one-at-a-time lanes
  gameRunning,     \* globalThis.gameRunning
  movingNotes,     \* globalThis.movingNotes, the targets on screen
  hands,           \* midi-integration pianoModeSettings: evaluation mode per clef
  dChord,          \* midi-integration __chordStart and __chordHits per clef
  gameLevel,       \* globalThis.gameLevel
  laneSpeed,       \* speedPxPerSec handed to spawnVisualTarget for a lane's target
  cadence,         \* spawn intervals (ms) the lanes' functions give at the level
  generated,       \* the last generator call: its name, its range, the pitches it returned
  inFlight,        \* the MIDI callback: how far it got with its note, the counters before it
  op,              \* the kind of operation performed by the last step
  ev,              \* notifications emitted by the last step, in order
  resolved,        \* ids of the targets an outcome was emitted for
  twice            \* ids of the targets a second outcome was emitted for

vars == <<unit, feed, generated, inFlight, nextId, inits, stamp, timers, piano, cLanes, pianoModeActive, gLives,
          gBassLives, gTrebleLives, score, laneStates, lanes, gameRunning, movingNotes,
          hands, dChord, gameLevel, laneSpeed, cadence, op, ev, resolved, twice>>
coreVars == <<piano, cLanes>>
globalVars == <<pianoModeActive, gLives, gBassLives, gTrebleLives, score>>
queueVars == <<laneStates>>
oneVars == <<lanes>>
dispatchVars == <<gameRunning, movingNotes, hands, dChord>>
levelVars == <<gameLevel, laneSpeed, cadence>>

\* Degenerate chords a caller can push: no pitch at all (the only chord the
\* bass lane gets), and one pitch listed twice; the melody lets a target queue
\* up behind them.
EdgeTargets(l, i) ==
  IF l = "treble" THEN {Melody(60, i)}
  ELSE IF l = "bass" THEN {Chord(<<>>, i), Melody(57, i)}
  ELSE {Chord(<<>>, i), Chord(<<57, 57>>, i), Melody(57, i)}
FedTargets(l, i) == IF feed = "edge" THEN EdgeTargets(l, i) ELSE LaneTargets(l, i)

\* ---------------------------------------------------------------- ghost
ghostVars == <<resolved, twice>>
IsOutcome(e) == e.n \in {"success", "fail"}
OutcomeIdx(es) == {k \in 1..Len(es) : IsOutcome(es[k])}
OutcomeIds(es) == {es[k].id : k \in OutcomeIdx(es)}
\* ids with two outcomes within es
Repeated(es) == {es[k].id : k \in {k1 \in OutcomeIdx(es) :
                                     \E k2 \in OutcomeIdx(es) : k2 # k1 /\ es[k2].id = es[k1].id}}
Record(es) ==
  /\ resolved' = resolved \cup OutcomeIds(es)
  /\ twice' = twice \cup (resolved \cap OutcomeIds(es)) \cup Repeated(es)

\* --------------------------------------------------------------- timers
\* setTimeout(cb, delay): cb's captured lane, target id and tone set; `elapsed`
\* is the time since the call, which is also the time since the window start
\* the callback captured.
Timer(l, i, tones, delay) ==
  [lane |-> l, id |-> i, tones |-> tones, delay |-> delay, elapsed |-> 0, started |-> 0]
Due(tm) == tm.elapsed >= tm.delay
Age(a, d) == IF a = UNDEF THEN UNDEF ELSE Min(a + d, CHORD_WINDOW_MS + CORE_TIMEOUT_SLACK + MaxLate)

QueueAbsent ==
  [present |-> FALSE, mode |-> "melody", lives |-> 0, enabled |-> FALSE,
   queue |-> <<>>, chordRuntime |-> NoRT]
\* midi-integration: __chordStart[clef] = null, __chordHits[clef] empty
NoWindow == [start |-> UNDEF, hits |-> {}]
OneEmpty ==
  [active |-> NoTarget, phraseIndex |-> 0, phraseSize |-> 0,
   chordStart |-> UNDEF, chordHits |-> {}]

\* ================================================== piano-core.js ("core")
CoreLane(mode, lives) ==
  [mode |-> mode, lives |-> lives, enabled |-> TRUE, queue |-> <<>>, chordRT |-> NoRT]

CoreRouteLane(midi, p) ==
  IF p THEN (IF midi <= BASS_MAX THEN "bass" ELSE "treble") ELSE "mono"

\* popSuccessLane without the shift: the head stays queued after its success
CorePopSuccessKeepHead(ls) == [ls EXCEPT !.chordRT = NoRT]
\* popSuccessLane
CorePopSuccess(ls) == [ls EXCEPT !.queue = Shift(@), !.chordRT = NoRT]
CoreSuccessEvents(l, ls) == <<Ev("success", l, ls.queue[1], "", ls.lives)>>

\* popFailLane that forgets `ls.lives -= 1`
CoreLivesKept(lives) == lives
\* popFailLane: the lane record after the fail
CoreLivesAfterFail(lives) == lives - 1
CorePopFail(ls) ==
  LET lv == CoreLivesAfterFail(ls.lives) IN
  [ls EXCEPT !.queue = Shift(@), !.chordRT = NoRT, !.lives = lv,
             !.enabled = IF lv <= 0 THEN FALSE ELSE @]
\* popFailLane that calls onFail before onLives
CoreFailEventsFailFirst(l, t, why, after) ==
  <<Ev("fail", l, t, why, after[l].lives), Ev("lives", l, t, "", after[l].lives)>>
  \o (IF after[l].lives <= 0
      THEN <<Ev("laneDisabled", l, t, "", after[l].lives)>>
           \o (IF piano
               THEN (IF ~after["bass"].enabled /\ ~after["treble"].enabled
                     THEN <<Ev("gameOver", l, t, "piano-both-dead", after[l].lives)>>
                     ELSE <<>>)
               ELSE <<Ev("gameOver", l, t, "mono-dead", after[l].lives)>>)
      ELSE <<>>)
\* popFailLane: the callbacks it invokes, in order, in the lanes `after` the fail
CoreFailEvents(l, t, why, after) ==
  <<Ev("lives", l, t, "", after[l].lives), Ev("fail", l, t, why, after[l].lives)>>
  \o (IF after[l].lives <= 0
      THEN <<Ev("laneDisabled", l, t, "", after[l].lives)>>
           \o (IF piano
               THEN (IF ~after["bass"].enabled /\ ~after["treble"].enabled
                     THEN <<Ev("gameOver", l, t, "piano-both-dead", after[l].lives)>>
                     ELSE <<>>)
               ELSE <<Ev("gameOver", l, t, "mono-dead", after[l].lives)>>)
      ELSE <<>>)


\* evalMelody / evalChord: the outcome of evaluating `midi` against lane l.
\* kind: "none" (returned early), "success", "fail", "collect"
CoreNoChange(ls) == [kind |-> "none", ls |-> ls, why |-> "", tm |-> {}]

CoreEvalMelody(l, ls, midi) ==
  IF ls.queue = <<>> \/ ls.queue[1].kind # "melody" THEN CoreNoChange(ls)
  ELSE IF midi = ls.queue[1].midi
       THEN [kind |-> "success", ls |-> CorePopSuccess(ls), why |-> "", tm |-> {}]
       ELSE [kind |-> "fail", ls |-> CorePopFail(ls), why |-> "melody-wrong-note", tm |-> {}]

\* evalChord counting presses instead of distinct tones: a repeated tone counts
CoreEvalChordCounting(l, ls, midi) ==
  IF ls.queue = <<>> \/ ls.queue[1].kind # "chord" THEN CoreNoChange(ls)
  ELSE LET t == ls.queue[1]
           tones == Tones(t)
           fresh == ~ls.chordRT.open \/ ls.chordRT.activeId # t.id
           rt0 == IF fresh THEN OpenRT(t.id) ELSE ls.chordRT
           rt1 == [rt0 EXCEPT !.collected = @ \cup {midi}]
           tm == IF fresh
                 THEN {Timer(l, t.id, tones, CHORD_WINDOW_MS + CORE_TIMEOUT_SLACK)}
                 ELSE {}
           ls1 == [ls EXCEPT !.chordRT = rt1]
       IN IF midi \notin tones
          THEN [kind |-> "fail", ls |-> CorePopFail(ls), why |-> "chord-stray", tm |-> {}]
          ELSE IF Cardinality(rt0.collected) + 1 = Cardinality(tones)
               THEN [kind |-> "success", ls |-> CorePopSuccess(ls1), why |-> "", tm |-> tm]
               ELSE [kind |-> "collect", ls |-> ls1, why |-> "", tm |-> tm]
\* evalChord that resolves the chord as soon as no tone is missing, before
\* looking at the note: a chord without pitches succeeds on any note
CoreEvalChordVacuous(l, ls, midi) ==
  IF ls.queue = <<>> \/ ls.queue[1].kind # "chord" THEN CoreNoChange(ls)
  ELSE IF Tones(ls.queue[1]) \subseteq (IF ls.chordRT.open THEN ls.chordRT.collected ELSE {})
       THEN [kind |-> "success", ls |-> CorePopSuccess(ls), why |-> "", tm |-> {}]
       ELSE IF midi \notin Tones(ls.queue[1])
            THEN [kind |-> "fail", ls |-> CorePopFail(ls), why |-> "chord-stray", tm |-> {}]
            ELSE [kind |-> "collect", ls |-> ls, why |-> "", tm |-> {}]
CoreEvalChord(l, ls, midi) ==
  IF ls.queue = <<>> \/ ls.queue[1].kind # "chord" THEN CoreNoChange(ls)
  ELSE LET t == ls.queue[1]
           tones == Tones(t)
           fresh == ~ls.chordRT.open \/ ls.chordRT.activeId # t.id
           rt0 == IF fresh THEN OpenRT(t.id) ELSE ls.chordRT
           rt1 == [rt0 EXCEPT !.collected = @ \cup {midi}]
           tm == IF fresh
                 THEN {Timer(l, t.id, tones, CHORD_WINDOW_MS + CORE_TIMEOUT_SLACK)}
                 ELSE {}
           ls1 == [ls EXCEPT !.chordRT = rt1]
       IN IF midi \notin tones
          THEN [kind |-> "fail", ls |-> CorePopFail(ls), why |-> "chord-stray", tm |-> {}]
          ELSE IF Cardinality(rt1.collected) = Cardinality(tones)
               THEN [kind |-> "success", ls |-> CorePopSuccess(ls1), why |-> "", tm |-> tm]
               ELSE [kind |-> "collect", ls |-> ls1, why |-> "", tm |-> tm]

\* onNoteOn without its `if (!ls.enabled) return`
CoreDispatchUnguarded(l, ls, midi) ==
  IF ls.mode = "melody" THEN CoreEvalMelody(l, ls, midi) ELSE CoreEvalChord(l, ls, midi)
\* onNoteOn dispatches on the lane's configured mode
CoreDispatch(l, ls, midi) ==
  IF ~ls.enabled THEN CoreNoChange(ls)
  ELSE IF ls.mode = "melody" THEN CoreEvalMelody(l, ls, midi)
       ELSE CoreEvalChord(l, ls, midi)

CoreApply(l, r) ==
  LET after == [cLanes EXCEPT ![l] = r.ls]
      es == IF r.kind = "success" THEN CoreSuccessEvents(l, cLanes[l])
            ELSE IF r.kind = "fail" THEN CoreFailEvents(l, cLanes[l].queue[1], r.why, after)
            ELSE <<>>
  IN /\ cLanes' = after
     /\ ev' = es
     /\ Record(es)

CoreOnNoteOn(midi) ==
  /\ unit = "core"
  /\ LET l == CoreRouteLane(midi, piano)
         r == CoreDispatch(l, cLanes[l], midi)
     IN /\ CoreApply(l, r)
        /\ timers' = timers \cup r.tm
        /\ op' = "noteOn"
  /\ UNCHANGED <<unit, feed, generated, inFlight, levelVars, dispatchVars, inits, stamp, nextId, piano, globalVars, queueVars, oneVars>>

\* the closure without its `head.id !== t.id` test
CoreTimeoutAnyHead(ls, tm) ==
  IF ls.queue = <<>> \/ ls.queue[1].kind # "chord" THEN CoreNoChange(ls)
  ELSE IF ~ls.chordRT.open \/ Cardinality(ls.chordRT.collected) < Cardinality(tm.tones)
       THEN [kind |-> "fail", ls |-> CorePopFail(ls), why |-> "chord-timeout", tm |-> {}]
       ELSE CoreNoChange(ls)
\* the closure scheduled by evalChord
CoreTimeoutResult(ls, tm) ==
  IF ls.queue = <<>> \/ ls.queue[1].kind # "chord" \/ ls.queue[1].id # tm.id
  THEN CoreNoChange(ls)
  ELSE IF ~ls.chordRT.open \/ Cardinality(ls.chordRT.collected) < Cardinality(tm.tones)
       THEN [kind |-> "fail", ls |-> CorePopFail(ls), why |-> "chord-timeout", tm |-> {}]
       ELSE CoreNoChange(ls)

CoreTimeout(tm) ==
  /\ unit = "core"
  /\ tm \in timers
  /\ Due(tm)
  /\ CoreApply(tm.lane, CoreTimeoutResult(cLanes[tm.lane], tm))
  /\ timers' = timers \ {tm}
  /\ op' = "timeout"
  /\ UNCHANGED <<unit, feed, generated, inFlight, levelVars, dispatchVars, inits, stamp, nextId, piano, globalVars, queueVars, oneVars>>

\* init(opts)
LivesOpts == {UNDEF} \cup (0..MaxLivesOpt)
NoModes == [l \in LaneIds |-> "absent"]
ModeOpts == {NoModes}
CoreInitLane(ls, lives, mode) ==
  LET lv == IF lives = UNDEF THEN ls.lives ELSE lives
  IN [mode |-> IF mode = "absent" THEN ls.mode ELSE mode,
      lives |-> lv, enabled |-> (lv > 0), queue |-> <<>>, chordRT |-> NoRT]

CoreInit(p, bl, tl, ml, ms) ==
  /\ unit = "core"
  /\ inits < MaxInits
  /\ inits' = inits + 1
  /\ piano' = p
  /\ cLanes' = [l \in LaneIds |->
                  CoreInitLane(cLanes[l],
                               IF l = "bass" THEN bl ELSE IF l = "treble" THEN tl ELSE ml,
                               ms[l])]
  /\ op' = "init"
  /\ ev' = <<>>
  /\ UNCHANGED <<unit, feed, generated, inFlight, levelVars, dispatchVars, stamp, nextId, timers, globalVars, queueVars, oneVars, ghostVars>>

InPlay(p) == IF p THEN {"bass", "treble"} ELSE {"mono"}

\* pushTarget(l, t)
CorePushTarget(l, t) ==
  /\ unit = "core"
  /\ nextId <= MaxIds
  /\ Len(cLanes[l].queue) < MaxQueue
  /\ cLanes' = [cLanes EXCEPT ![l].queue = Append(@, t)]
  /\ nextId' = nextId + 1
  /\ op' = "push"
  /\ ev' = <<>>
  /\ UNCHANGED <<unit, feed, generated, inFlight, levelVars, dispatchVars, inits, stamp, timers, piano, globalVars, queueVars, oneVars, ghostVars>>

\* setLaneMode(l, m)
CoreSetLaneMode(l, m) ==
  /\ unit = "core"
  /\ cLanes[l].mode # m
  /\ cLanes' = [cLanes EXCEPT ![l].mode = m]
  /\ op' = "setMode"
  /\ ev' = <<>>
  /\ UNCHANGED <<unit, feed, generated, inFlight, levelVars, dispatchVars, inits, stamp, nextId, timers, piano, globalVars, queueVars, oneVars, ghostVars>>

\* time passes
AgeCoreLane(ls, d) == [ls EXCEPT !.chordRT.sinceStart = Age(@, d)]
AgeQueueLane(ls, d) == [ls EXCEPT !.chordRuntime.sinceStart = Age(@, d)]
Tick(d) ==
  /\ timers # {}
  /\ \A tm \in timers : tm.elapsed + d <= tm.delay + MaxLate
  /\ d = FineStep => \E tm \in timers : tm.elapsed >= CHORD_WINDOW_MS
  /\ timers' = {[tm EXCEPT !.elapsed = @ + d] : tm \in timers}
  /\ cLanes' = [l \in LaneIds |-> AgeCoreLane(cLanes[l], d)]
  /\ laneStates' = [l \in LaneIds |-> AgeQueueLane(laneStates[l], d)]
  /\ op' = "tick"
  /\ ev' = <<>>
  /\ UNCHANGED <<unit, feed, generated, inFlight, levelVars, dispatchVars, inits, stamp, nextId, piano, globalVars, oneVars, ghostVars>>

\* ========================================= lane-system.ts, queued ("queue")
\* _isPianoOn(): globalThis.pianoModeActive is always defined here
IsPianoOn == pianoModeActive
\* _routeClefByMidi
RouteClefByMidi(midi) == IF midi <= BASS_MAX THEN "bass" ELSE "treble"
\* routeLane with `<` for `<=`
RouteLaneBelow(midi, p) == IF ~p THEN "mono" ELSE (IF midi < BASS_MAX THEN "bass" ELSE "treble")
\* routeLane(midi, pianoModeActive)
RouteLane(midi, p) == IF ~p THEN "mono" ELSE (IF midi <= BASS_MAX THEN "bass" ELSE "treble")
\* handleMidiNoteOn: routedClef
RoutedClef(midi) == IF IsPianoOn THEN RouteClefByMidi(midi) ELSE "mono"

\* a LaneState as initializeLanes builds it.  Its `held` set is written by
\* handleMidiNoteOn and read nowhere, so it is left out.
QueueLane ==
  [present |-> TRUE, mode |-> "melody", lives |-> START_LIVES, enabled |-> TRUE,
   queue |-> <<>>, chordRuntime |-> NoRT]
\* the lane map and the global counters the evaluator reads and writes
World == [lanes |-> laneStates, lives |-> gLives, bass |-> gBassLives, treble |-> gTrebleLives]
\* x <= 0 in JavaScript: false for undefined
LeqZero(x) == x # UNDEF /\ x <= 0

\* decrementLives that forgets the subtraction
QueueLivesKept(lives) == Max(0, lives)
\* decrementLives(lane, 1)
QueueLivesAfterFail(lives) == Max(0, lives - 1)
DecrementLives(w, l) ==
  IF ~w.lanes[l].present THEN w
  ELSE LET lv == QueueLivesAfterFail(w.lanes[l].lives)
           ls == [w.lanes[l] EXCEPT !.lives = lv, !.enabled = IF lv <= 0 THEN FALSE ELSE @]
       IN [lanes |-> [w.lanes EXCEPT ![l] = ls],
           lives |-> IF l = "mono" THEN lv ELSE w.lives,
           bass |-> IF l = "bass" THEN lv ELSE w.bass,
           treble |-> IF l = "treble" THEN lv ELSE w.treble]
DecrementLivesEvents(w, l, t) ==
  IF ~w.lanes[l].present THEN <<>>
  ELSE <<Ev("lives", l, t, "", QueueLivesAfterFail(w.lanes[l].lives))>>

\* _stopAtZeroGuards: lanes whose global counter is at zero are disabled
GuardDisables(w, l) == IsPianoOn /\ w.lanes[l].present /\
  ((l = "bass" /\ LeqZero(w.bass)) \/ (l = "treble" /\ LeqZero(w.treble)))
StopAtZeroGuards(w) ==
  [w EXCEPT !.lanes = [l \in LaneIds |->
      IF GuardDisables(w, l) THEN [w.lanes[l] EXCEPT !.enabled = FALSE] ELSE w.lanes[l]]]
StopAtZeroEvents(w, t) ==
  IF ~IsPianoOn THEN <<>>
  ELSE (IF LeqZero(w.bass) THEN <<Ev("laneDisabled", "bass", t, "", w.bass)>> ELSE <<>>)
       \o (IF LeqZero(w.treble) THEN <<Ev("laneDisabled", "treble", t, "", w.treble)>> ELSE <<>>)
       \o (IF LeqZero(w.bass) /\ LeqZero(w.treble)
           THEN <<Ev("gameOver", "all", t, "piano-both-dead", 0)>> ELSE <<>>)

\* removeActiveTargetFromQueue with pop() for shift(): the newest target goes
RemoveNewestTarget(w, l) ==
  IF ~w.lanes[l].present \/ w.lanes[l].queue = <<>> THEN w
  ELSE [w EXCEPT !.lanes[l].queue = SubSeq(@, 1, Len(@) - 1)]
\* removeActiveTargetFromQueue
RemoveActiveTarget(w, l) ==
  IF ~w.lanes[l].present THEN w ELSE [w EXCEPT !.lanes[l].queue = Shift(@)]
ClearRuntime(w, l) == [w EXCEPT !.lanes[l].chordRuntime = NoRT]

\* the fail sequence shared by the melody, stray and timeout paths:
\* decrementLives; _stopAtZeroGuards; removeActiveTargetFromQueue; popFail
QueueFail(w, l) == RemoveActiveTarget(StopAtZeroGuards(DecrementLives(w, l)), l)
QueueFailEvents(w, l, t) ==
  DecrementLivesEvents(w, l, t) \o StopAtZeroEvents(DecrementLives(w, l), t)
  \o <<Ev("fail", l, t, "", DecrementLives(w, l).lanes[l].lives)>>

QueueResult(k, w, es, tm) == [kind |-> k, w |-> w, ev |-> es, tm |-> tm]
QueueNoChange == QueueResult("none", World, <<>>, {})

\* handleMelody_Strict
HandleMelodyStrict(l, midi, tgt) ==
  IF midi = tgt.midi
  THEN QueueResult("success", RemoveActiveTarget(World, l),
                   <<Ev("success", l, tgt, "", World.lanes[l].lives)>>, {})
  ELSE QueueResult("fail", QueueFail(World, l), QueueFailEvents(World, l, tgt), {})

\* handleChord_Strict
HandleChordStrict(l, midi, tgt) ==
  LET ls == laneStates[l]
      tones == Tones(tgt)
      fresh == ~ls.chordRuntime.open \/ ls.chordRuntime.activeId # tgt.id
      rt0 == IF fresh THEN OpenRT(tgt.id) ELSE ls.chordRuntime
      rt1 == [rt0 EXCEPT !.collected = @ \cup {midi}]
      tm == IF fresh THEN {Timer(l, tgt.id, tones, CHORD_WINDOW_MS + QUEUE_TIMEOUT_SLACK)}
            ELSE {}
      w1 == [World EXCEPT !.lanes[l].chordRuntime = rt1]
  IN IF midi \notin tones
     THEN QueueResult("fail", ClearRuntime(QueueFail(World, l), l),
                      QueueFailEvents(World, l, tgt), {})
     ELSE IF Cardinality(rt1.collected) = Cardinality(tones)
          THEN QueueResult("success", ClearRuntime(RemoveActiveTarget(w1, l), l),
                           <<Ev("success", l, tgt, "", ls.lives)>>, tm)
          ELSE QueueResult("collect", w1, <<>>, tm)

\* handleMidiNoteOn: guards, then dispatch on the kind of the head target
QueueDispatch(l, midi) ==
  LET ls == laneStates[l] IN
  IF ~ls.present \/ ~ls.enabled THEN QueueNoChange
  ELSE IF ls.queue = <<>> THEN QueueNoChange
  ELSE IF ls.queue[1].kind = "melody" THEN HandleMelodyStrict(l, midi, ls.queue[1])
  ELSE HandleChordStrict(l, midi, ls.queue[1])

QueueApply(r) ==
  /\ laneStates' = r.w.lanes
  /\ gLives' = r.w.lives
  /\ gBassLives' = r.w.bass
  /\ gTrebleLives' = r.w.treble
  /\ score' = IF r.kind = "success" THEN score + 1 ELSE score
  /\ ev' = r.ev
  /\ Record(r.ev)

HandleMidiNoteOn(midi) ==
  /\ unit = "queue"
  /\ LET l == RoutedClef(midi)
         r == QueueDispatch(l, midi)
     IN /\ QueueApply(r)
        /\ timers' = timers \cup r.tm
        /\ op' = "noteOn"
  /\ UNCHANGED <<unit, feed, generated, inFlight, levelVars, dispatchVars, inits, stamp, nextId, pianoModeActive, coreVars, oneVars>>

\* the early returns of chordTimeoutCheck: lane gone or disabled, head is not
\* the chord of this timer, or no window of that chord is open
ChordTimeoutStale(ls, tm) ==
  \/ ~ls.present \/ ~ls.enabled
  \/ ls.queue = <<>> \/ ls.queue[1].kind # "chord" \/ ls.queue[1].id # tm.id
  \/ ~ls.chordRuntime.open \/ ls.chordRuntime.activeId # tm.id

\* chordTimeoutCheck(lane, targetId, startedAt)
ChordTimeoutResult(tm) ==
  LET ls == laneStates[tm.lane] IN
  IF ChordTimeoutStale(ls, tm) THEN QueueNoChange
  ELSE IF tm.elapsed >= CHORD_WINDOW_MS
       THEN QueueResult("fail", ClearRuntime(QueueFail(World, tm.lane), tm.lane),
                        QueueFailEvents(World, tm.lane, ls.queue[1]), {})
       ELSE QueueNoChange

ChordTimeoutCheck(tm) ==
  /\ unit = "queue"
  /\ tm \in timers
  /\ Due(tm)
  /\ QueueApply(ChordTimeoutResult(tm))
  /\ timers' = timers \ {tm}
  /\ op' = "timeout"
  /\ UNCHANGED <<unit, feed, generated, inFlight, levelVars, dispatchVars, inits, stamp, nextId, pianoModeActive, coreVars, oneVars>>

\* initializeLanes
InitializedLanes(p) ==
  [l \in LaneIds |-> IF l \in InPlay(p) THEN QueueLane ELSE QueueAbsent]
DefaultLives == IF gLives # UNDEF THEN gLives ELSE START_LIVES
InitializeLanes ==
  /\ unit = "queue"
  /\ inits < MaxInits
  /\ inits' = inits + 1
  /\ laneStates' = InitializedLanes(IsPianoOn)
  /\ gBassLives' = IF IsPianoOn /\ gBassLives = UNDEF THEN DefaultLives ELSE gBassLives
  /\ gTrebleLives' = IF IsPianoOn /\ gTrebleLives = UNDEF THEN DefaultLives ELSE gTrebleLives
  /\ op' = "init"
  /\ ev' = <<>>
  /\ UNCHANGED <<unit, feed, generated, inFlight, levelVars, dispatchVars, stamp, nextId, timers, pianoModeActive, gLives, score, coreVars, oneVars,
                 ghostVars>>

\* the test harness: set the mode and the counters, then initializeLanes
HarnessSetup(p) ==
  /\ unit = "queue"
  /\ inits < MaxInits
  /\ inits' = inits + 1
  /\ pianoModeActive' = p
  /\ gLives' = IF p THEN gLives ELSE START_LIVES
  /\ gBassLives' = IF p THEN START_LIVES ELSE gBassLives
  /\ gTrebleLives' = IF p THEN START_LIVES ELSE gTrebleLives
  /\ laneStates' = InitializedLanes(p)
  /\ op' = "init"
  /\ ev' = <<>>
  /\ UNCHANGED <<unit, feed, generated, inFlight, levelVars, dispatchVars, stamp, nextId, timers, score, coreVars, oneVars, ghostVars>>

\* spawnTarget(lane, t)
SpawnTarget(l, t) ==
  /\ unit = "queue"
  /\ laneStates[l].present
  /\ nextId <= MaxSpawns
  /\ Len(laneStates[l].queue) < MaxQueue
  /\ laneStates' = [laneStates EXCEPT ![l].queue = Append(@, t)]
  /\ nextId' = nextId + 1
  /\ op' = "push"
  /\ ev' = <<>>
  /\ UNCHANGED <<unit, feed, generated, inFlight, levelVars, dispatchVars, inits, stamp, timers, globalVars, coreVars, oneVars, ghostVars>>

\* ================================== lane-system.ts, one at a time ("one")
\* pianoOn(): globalThis.pianoModeActive is always defined here
PianoOn == pianoModeActive
\* routeClef
RouteClef(midi) == IF midi <= BASS_MAX THEN "bass" ELSE "treble"
\* laneForPlay
LaneForPlay == IF PianoOn THEN {"bass", "treble"} ELSE {"mono"}
\* matchesTarget(midi, targetMidi) under settings.strictOctave = strict
MatchesTarget(midi, targetMidi, strict) ==
  IF strict THEN midi = targetMidi ELSE (midi % 12) = (targetMidi % 12)

\* clamp that forgets the upper end
ClampNoCeiling(n, lo, hi) == Max(lo, n)
\* clamp
Clamp(n, lo, hi) == Max(lo, Min(hi, n))
\* laneRange that gives every lane the overall range
LaneRangeShared(l) == [min |-> MONO_LOW, max |-> MONO_HIGH]
LaneRange(l) ==
  IF ~PianoOn \/ l = "mono" THEN [min |-> MONO_LOW, max |-> MONO_HIGH]
  ELSE IF l = "bass" THEN [min |-> RANGE_LOW, max |-> BASS_MAX]
       ELSE [min |-> TREBLE_MIN, max |-> RANGE_HIGH]

\* The random draws of the generators, a few of the values Math.random() allows.
\* `steps` of nextSingleNoteInRange and `stepChoices` of nextMelodyTargetInRange
StepsArray == <<-2, -1, -1, 1, 1, 2, 2, 3, -3>>
StepChoices == <<-2, -2, -1, -1, 1, 1, 2, 2, 3, -3>>
\* Math.floor(Math.random() * n): every value it can take
RandomIndex(n) == IF n > 0 THEN 0..(n - 1) ELSE n..0
\* Array.from(new Set(a)): first occurrences, in order
RECURSIVE Dedup(_)
Dedup(s) ==
  IF s = <<>> THEN <<>>
  ELSE LET d == Dedup(SubSeq(s, 1, Len(s) - 1))
           x == s[Len(s)]
       IN IF x \in SeqToSet(d) THEN d ELSE Append(d, x)
SingleSteps == {1}
ChordRootOffsets == {15}
PhraseSteps == {<<1, 1, 1>>}
\* settings.playMode[lane] at the time of a spawn
PlayModeOpts(l) == IF l = "bass" THEN {"normal", "chord", "melody"} ELSE {"normal"}

\* nextSingleNoteInRange: the values it can return
SingleNoteOf(r, st) == Clamp((r.min + r.max + 1) \div 2 + st, r.min, r.max)
NextSingleNoteInRange(l) == {SingleNoteOf(LaneRange(l), st) : st \in SingleSteps}
\* nextChordInRange: the pitch lists it can return
ChordOfRoot(root, r) ==
  Dedup(SelectSeq(<<root, root + 4, root + 7>>, LAMBDA n : n >= r.min /\ n <= r.max))
ChordRootOf(r, k) == Clamp(r.min + k, r.min, r.max - 7)
NextChordInRange(l) ==
  LET r == LaneRange(l)
  IN {ChordOfRoot(ChordRootOf(r, k), r) : k \in ChordRootOffsets}
\* nextMelodyPhraseInRange: the phrases it can return
RECURSIVE PhraseFrom(_, _, _)
PhraseFrom(cur, steps, r) ==
  IF steps = <<>> THEN <<>>
  ELSE LET nxt == Clamp(cur + Head(steps), r.min, r.max)
       IN <<nxt>> \o PhraseFrom(nxt, Tail(steps), r)
NextMelodyPhraseInRange(l) ==
  LET r == LaneRange(l)
  IN {PhraseFrom((r.min + r.max + 1) \div 2, st, r) : st \in PhraseSteps}

\* 'C_' + lane + '_' + Date.now(): two targets of one kind spawned into one lane
\* in one instant carry the same id
OneId(prefix, l) == <<prefix, l, stamp>>
Phrase(ms, i) == [kind |-> "melodyPhrase", midi |-> UNDEF, mids |-> ms, id |-> i]
\* buildNextTarget(lane) with settings.playMode[lane] = mode: the targets it can build
BuildNextTarget(l, mode) ==
  LET m == IF PianoOn THEN mode ELSE "normal"
  IN IF m = "chord" THEN {Chord(c, OneId("C", l)) : c \in NextChordInRange(l)}
     ELSE IF m = "melody"
          THEN {Phrase(ph, OneId("MP", l)) : ph \in NextMelodyPhraseInRange(l)}
          ELSE {Melody(n, OneId("M", l)) : n \in NextSingleNoteInRange(l)}
Spawnable(l) == UNION {BuildNextTarget(l, mode) : mode \in PlayModeOpts(l)}

\* spawnNext without its guard: a new target replaces the active one
SpawnNextAlways(ln, t) ==
  [ln EXCEPT !.active = t,
             !.phraseIndex = IF t.kind = "melodyPhrase" THEN 0 ELSE @,
             !.phraseSize = IF t.kind = "melodyPhrase" THEN Len(t.mids) ELSE @]
\* spawnNext(lane), the target built being t
SpawnNext(ln, t) ==
  IF ln.active.kind # "none" THEN ln
  ELSE [ln EXCEPT !.active = t,
                  !.phraseIndex = IF t.kind = "melodyPhrase" THEN 0 ELSE @,
                  !.phraseSize = IF t.kind = "melodyPhrase" THEN Len(t.mids) ELSE @]
\* resolveAndRespawn(lane, result), the target built being t
ResolveAndRespawn(ln, t) ==
  SpawnNext([ln EXCEPT !.active = NoTarget, !.phraseIndex = 0, !.phraseSize = 0], t)
ClearChord(ln) == [ln EXCEPT !.chordHits = {}, !.chordStart = UNDEF]

\* the life counter decrementLivesForLane(lane) works on
Globals == [lives |-> gLives, bass |-> gBassLives, treble |-> gTrebleLives]
OneLivesAfterFail(lives) == Max(0, lives - 1)
\* decrementLivesForLane(lane)
DecrementLivesForLane(g, l) ==
  IF ~PianoOn THEN [g EXCEPT !.lives = OneLivesAfterFail(@)]
  ELSE IF l = "bass" THEN [g EXCEPT !.bass = OneLivesAfterFail(@)]
  ELSE IF l = "treble" THEN [g EXCEPT !.treble = OneLivesAfterFail(@)]
  ELSE g
DecrementLivesForLaneEvents(g, l, t) ==
  LET a == DecrementLivesForLane(g, l) IN
  IF ~PianoOn THEN <<Ev("lives", "mono", t, "", a.lives)>>
  ELSE (IF l = "bass" THEN <<Ev("lives", "bass", t, "", a.bass)>> ELSE <<>>)
       \o (IF l = "treble" THEN <<Ev("lives", "treble", t, "", a.treble)>> ELSE <<>>)
       \o (IF a.bass <= 0 THEN <<Ev("laneDisabled", "bass", t, "", a.bass)>> ELSE <<>>)
       \o (IF a.treble <= 0 THEN <<Ev("laneDisabled", "treble", t, "", a.treble)>> ELSE <<>>)
       \o (IF a.bass <= 0 /\ a.treble <= 0
           THEN <<Ev("gameOver", "all", t, "piano-both-dead", 0)>> ELSE <<>>)
\* the counter the one-at-a-time evaluator charges lane l's fails to
OneLives(g, l) ==
  IF l = "bass" THEN g.bass ELSE IF l = "treble" THEN g.treble ELSE g.lives

OneResult(k, ln, g, es, tm) == [kind |-> k, ln |-> ln, g |-> g, ev |-> es, tm |-> tm]
\* onSuccess; resolveAndRespawn
OneSuccess(l, ln, t, nxt) ==
  OneResult("success", ResolveAndRespawn(ln, nxt), Globals,
            <<Ev("success", l, t, "", OneLives(Globals, l))>>, {})
\* onFail; decrementLivesForLane; resolveAndRespawn
OneFail(l, ln, t, why, nxt) ==
  OneResult("fail", ResolveAndRespawn(ln, nxt), DecrementLivesForLane(Globals, l),
            <<Ev("fail", l, t, why, OneLives(Globals, l))>>
            \o DecrementLivesForLaneEvents(Globals, l, t), {})

OneTimer(l, t) ==
  [Timer(l, t.id, Tones(t), ONE_TIMEOUT_MS) EXCEPT !.started = stamp]

\* handleNoteOnOneAtATime once the lane holds its active target t
OneEvalMelody(l, ln, t, midi, strict, nxt) ==
  IF MatchesTarget(midi, t.midi, strict) THEN OneSuccess(l, ln, t, nxt)
  ELSE OneFail(l, ln, t, "melody-wrong", nxt)
OneEvalChord(l, ln, t, midi, nxt) ==
  LET tones == Tones(t)
      fresh == ln.chordStart = UNDEF
      ln1 == IF fresh THEN [ln EXCEPT !.chordStart = stamp, !.chordHits = {}] ELSE ln
      ln2 == [ln1 EXCEPT !.chordHits = @ \cup {midi}]
      tm == IF fresh THEN {OneTimer(l, t)} ELSE {}
  IN IF midi \notin tones THEN OneFail(l, ClearChord(ln), t, "chord-stray", nxt)
     ELSE IF Cardinality(ln2.chordHits) = Cardinality(tones)
          THEN [OneSuccess(l, ClearChord(ln2), t, nxt) EXCEPT !.tm = tm]
          ELSE OneResult("collect", ln2, Globals, <<>>, tm)
OneEvalPhrase(l, ln, t, midi, strict, nxt) ==
  IF MatchesTarget(midi, t.mids[ln.phraseIndex + 1], strict)
  THEN IF ln.phraseIndex + 1 >= ln.phraseSize
       THEN OneSuccess(l, [ln EXCEPT !.phraseIndex = @ + 1], t, nxt)
       ELSE OneResult("collect", [ln EXCEPT !.phraseIndex = @ + 1], Globals, <<>>, {})
  ELSE OneFail(l, ln, t, "phrase-wrong", nxt)
OneDispatch(l, ln, midi, strict, nxt) ==
  LET t == ln.active IN
  IF t.kind = "none" THEN OneResult("none", ln, Globals, <<>>, {})
  ELSE IF t.kind = "melody" THEN OneEvalMelody(l, ln, t, midi, strict, nxt)
  ELSE IF t.kind = "chord" THEN OneEvalChord(l, ln, t, midi, nxt)
  ELSE OneEvalPhrase(l, ln, t, midi, strict, nxt)

OneApply(l, r) ==
  /\ lanes' = [lanes EXCEPT ![l] = r.ln]
  /\ gLives' = r.g.lives
  /\ gBassLives' = r.g.bass
  /\ gTrebleLives' = r.g.treble
  /\ ev' = r.ev
  /\ UNCHANGED ghostVars

\* handleNoteOnOneAtATime: targetLane
OneLane(midi) == IF PianoOn THEN RouteClef(midi) ELSE "mono"
\* the targets spawnNext can put into lane l: none while the lane holds one
FirstSpawn(l) == IF lanes[l].active.kind = "none" THEN Spawnable(l) ELSE {NoTarget}
PickFor(l) == IF l \in LaneForPlay THEN FirstSpawn(l) ELSE {NoTarget}

\* the values of settings.strictOctave that make a difference to this note
StrictOpts(midi, first) ==
  LET ln == SpawnNext(lanes[OneLane(midi)], first)
      t == ln.active
      need == IF t.kind = "melody" THEN t.midi
              ELSE IF t.kind = "melodyPhrase" THEN t.mids[ln.phraseIndex + 1] ELSE midi
  IN IF MatchesTarget(midi, need, TRUE) = MatchesTarget(midi, need, FALSE)
     THEN {FALSE} ELSE BOOLEAN
\* the targets resolveAndRespawn can spawn for this note: none unless it resolves
NextSpawn(midi, strict, first) ==
  LET l == OneLane(midi)
      r == OneDispatch(l, SpawnNext(lanes[l], first), midi, strict, NoTarget)
  IN IF r.kind \in {"success", "fail"} THEN Spawnable(l) ELSE {NoTarget}

\* handleNoteOnOneAtATime(midi, velocity): `first` is the target spawned when the
\* lane is empty, `nxt` the one spawned after a resolution
HandleNoteOnOneAtATime(midi, strict, first, nxt) ==
  /\ unit = "one"
  /\ LET l == OneLane(midi)
         r == OneDispatch(l, SpawnNext(lanes[l], first), midi, strict, nxt)
     IN /\ OneApply(l, r)
        /\ timers' = timers \cup r.tm
        /\ op' = "noteOn"
  /\ UNCHANGED <<unit, feed, generated, inFlight, levelVars, dispatchVars, inits, stamp, nextId, pianoModeActive, score, coreVars, queueVars>>

\* the closure scheduled by handleNoteOnOneAtATime
OneTimeoutResult(tm, nxt) ==
  LET ln == lanes[tm.lane]
      still == ln.active
  IN IF still.kind # "chord" \/ still.id # tm.id
     THEN OneResult("none", ln, Globals, <<>>, {})
     ELSE IF ln.chordStart # tm.started THEN OneResult("none", ln, Globals, <<>>, {})
     ELSE IF Cardinality(ln.chordHits) < Cardinality(tm.tones)
          THEN OneFail(tm.lane, ClearChord(ln), still, "chord-timeout", nxt)
          ELSE OneResult("none", ln, Globals, <<>>, {})
TimeoutSpawn(tm) ==
  IF OneTimeoutResult(tm, NoTarget).kind = "fail" THEN Spawnable(tm.lane) ELSE {NoTarget}
OneTimeout(tm, nxt) ==
  /\ unit = "one"
  /\ tm \in timers
  /\ Due(tm)
  /\ OneApply(tm.lane, OneTimeoutResult(tm, nxt))
  /\ timers' = timers \ {tm}
  /\ op' = "timeout"
  /\ UNCHANGED <<unit, feed, generated, inFlight, levelVars, dispatchVars, inits, stamp, nextId, pianoModeActive, score, coreVars, queueVars>>

\* gameTickLoop: every lane in play that holds no target gets one
GameTickLoop(pick) ==
  /\ unit = "one"
  /\ \E l \in LaneForPlay : lanes[l].active.kind = "none"
  /\ lanes' = [l \in LaneIds |->
                 IF l \in LaneForPlay THEN SpawnNext(lanes[l], pick[l]) ELSE lanes[l]]
  /\ op' = "spawn"
  /\ ev' = <<>>
  /\ UNCHANGED <<unit, feed, generated, inFlight, levelVars, dispatchVars, inits, stamp, nextId, timers, globalVars, coreVars, queueVars, ghostVars>>

\* the piano toggle (button or key "p")
TogglePiano ==
  /\ unit = "one"
  /\ inits < MaxToggles
  /\ inits' = inits + 1
  /\ pianoModeActive' = ~pianoModeActive
  /\ op' = "toggle"
  /\ ev' = <<>>
  /\ UNCHANGED <<unit, feed, generated, inFlight, levelVars, dispatchVars, stamp, nextId, timers, gLives, gBassLives, gTrebleLives, score,
                 coreVars, queueVars, oneVars, ghostVars>>

\* time passes: Date.now() and performance.now() move on
OneTick(d) ==
  /\ unit = "one"
  /\ stamp < MaxStamps
  /\ timers = {} => d = CoarseStep
  /\ \A tm \in timers : tm.elapsed + d <= tm.delay + MaxLate
  /\ (d = FineStep /\ timers # {}) => \E tm \in timers : tm.elapsed >= ONE_TIMEOUT_MS
  /\ timers' = {[tm EXCEPT !.elapsed = @ + d] : tm \in timers}
  /\ stamp' = stamp + 1
  /\ op' = "tick"
  /\ ev' = <<>>
  /\ UNCHANGED <<unit, feed, generated, inFlight, levelVars, dispatchVars, inits, nextId, globalVars, coreVars, queueVars, oneVars, ghostVars>>

\* ================== midi-integration.ts, dispatchNoteOn ("dispatch")
\* The dispatcher evaluates notes against globalThis.movingNotes, the array of
\* targets on screen that the game fills; it has its own copies of _isPianoOn
\* and _routeClefByMidi, which read as IsPianoOn and RouteClefByMidi.
DISPATCH_TIMEOUT_MS == 100

\* a movingNotes entry for target t on clef c: a chord entry has no midiNote
MovingNote(c, t) ==
  [clef |-> c, kind |-> t.kind, midiNote |-> t.midi, mids |-> t.mids, id |-> t.id]
\* targets the game puts on screen
DispatchTargets(c, i) ==
  IF c = "bass" THEN {Melody(57, i), Chord(<<55, 59>>, i)}
  ELSE {Melody(60, i), Chord(<<60, 62>>, i)}

\* Array.prototype.findIndex, 1-based, ks being the indices of the entries that
\* satisfy the predicate; 0 when there is none
FindFirst(ks) == IF ks = {} THEN 0 ELSE CHOOSE k \in ks : \A j \in ks : k <= j
\* _activeMelodyTarget(clef): the first melody entry of the clef
ActiveMelodyTarget(c) ==
  LET P(n) == n.clef = c /\ n.kind = "melody"
      k == FindFirst({i \in 1..Len(movingNotes) : P(movingNotes[i])})
  IN IF k = 0 THEN NoTarget ELSE Melody(movingNotes[k].midiNote, movingNotes[k].id)
\* _activeChordTarget(clef): the first chord entry of the clef
ActiveChordTarget(c) ==
  LET P(n) == n.clef = c /\ n.kind = "chord"
      k == FindFirst({i \in 1..Len(movingNotes) : P(movingNotes[i])})
  IN IF k = 0 THEN NoTarget ELSE Chord(movingNotes[k].mids, movingNotes[k].id)
\* the head of a clef's lane: its first entry on screen
ClefHead(c) ==
  LET P(n) == n.clef = c
      k == FindFirst({i \in 1..Len(movingNotes) : P(movingNotes[i])})
  IN IF k = 0 THEN NoTarget ELSE movingNotes[k]
\* _success / _fail: the entry spliced out is the first one with the target's
\* id, or with note.midiNote === target.midi (undefined === undefined for a
\* chord target and a chord entry), or with the same pitch list
RemoveMoving(notes, t) ==
  LET P(n) == \/ n.id = t.id
              \/ n.midiNote = t.midi
              \/ /\ n.kind = "chord" /\ t.kind = "chord"
                 /\ Len(n.mids) = Len(t.mids)
                 /\ SeqToSet(n.mids) \subseteq SeqToSet(t.mids)
      k == FindFirst({i \in 1..Len(notes) : P(notes[i])})
  IN IF k = 0 THEN notes ELSE SubSeq(notes, 1, k - 1) \o SubSeq(notes, k + 1, Len(notes))

\* _decLife(clef)
DispatchLivesAfterFail(n) == Max(0, (IF n = UNDEF THEN START_LIVES ELSE n) - 1)
DecLife(g, c) ==
  IF ~IsPianoOn THEN [g EXCEPT !.lives = IF @ = UNDEF THEN @ ELSE Max(0, @ - 1)]
  ELSE IF c = "bass" THEN [g EXCEPT !.bass = DispatchLivesAfterFail(@)]
  ELSE [g EXCEPT !.treble = DispatchLivesAfterFail(@)]
\* _laneAlive(clef)
LaneAlive(g, c) ==
  IF ~IsPianoOn THEN (g.lives = UNDEF \/ g.lives > 0)
  ELSE IF c = "bass" THEN ~LeqZero(g.bass) ELSE ~LeqZero(g.treble)
\* _afterLifeChangeStopIfNeeded: disableBassLane, disableTrebleLane, stopGame
AfterLifeChangeEvents(g, t) ==
  IF ~IsPianoOn THEN <<>>
  ELSE (IF LeqZero(g.bass) THEN <<Ev("laneDisabled", "bass", t, "", g.bass)>> ELSE <<>>)
       \o (IF LeqZero(g.treble) THEN <<Ev("laneDisabled", "treble", t, "", g.treble)>>
           ELSE <<>>)
       \o (IF LeqZero(g.bass) /\ LeqZero(g.treble)
           THEN <<Ev("gameOver", "bass", t, "piano-both-dead", 0)>> ELSE <<>>)

DispatchResult(k, notes, g, ch, es, tm) ==
  [kind |-> k, notes |-> notes, g |-> g, ch |-> ch, ev |-> es, tm |-> tm]
DispatchNoChange == DispatchResult("none", movingNotes, Globals, dChord, <<>>, {})
\* _success(clef, target)
DispatchSuccess(c, t, ch, tm) ==
  DispatchResult("success", RemoveMoving(movingNotes, t), Globals, ch,
                 <<Ev("success", c, t, "", OneLives(Globals, c))>>, tm)
\* _fail(clef, target, why): `why` is received and reported nowhere
DispatchFail(c, t, why, ch) ==
  LET g == DecLife(Globals, c)
  IN DispatchResult("fail", RemoveMoving(movingNotes, t), g, ch,
                    <<Ev("fail", c, t, why, OneLives(g, c))>> \o AfterLifeChangeEvents(g, t),
                    {})
\* dispatchNoteOn(midi, velocity)
Dispatch(midi) ==
  LET c == RouteClefByMidi(midi)
      m == ActiveMelodyTarget(c)
      chord == ActiveChordTarget(c)
      tones == Tones(chord)
      fresh == dChord[c].start = UNDEF
      w1 == IF fresh THEN [start |-> stamp, hits |-> {}] ELSE dChord[c]
      w2 == [w1 EXCEPT !.hits = @ \cup {midi}]
      tm == IF fresh
            THEN {[Timer(c, chord.id, tones, DISPATCH_TIMEOUT_MS) EXCEPT !.started = stamp]}
            ELSE {}
      closed == [dChord EXCEPT ![c] = NoWindow]
  IN IF ~gameRunning \/ ~IsPianoOn \/ ~LaneAlive(Globals, c) THEN DispatchNoChange
     ELSE IF hands[c] = "melody"
          THEN IF m.kind = "none" THEN DispatchNoChange
               ELSE IF midi = m.midi THEN DispatchSuccess(c, m, dChord, {})
               ELSE DispatchFail(c, m, "melody-wrong", dChord)
     ELSE IF chord.kind = "none" THEN DispatchNoChange
     ELSE IF midi \notin tones THEN DispatchFail(c, chord, "chord-stray", closed)
     ELSE IF Cardinality(w2.hits) = Cardinality(tones)
          THEN DispatchSuccess(c, chord, closed, tm)
          ELSE DispatchResult("collect", movingNotes, Globals, [dChord EXCEPT ![c] = w2],
                              <<>>, tm)
\* the closure scheduled by dispatchNoteOn
DispatchTimeoutResult(tm) ==
  LET c == tm.lane
      still == ActiveChordTarget(c)
      closed == [dChord EXCEPT ![c] = NoWindow]
  IN IF still.kind = "none" \/ still.id # tm.id THEN DispatchNoChange
     ELSE IF dChord[c].start # tm.started THEN DispatchNoChange
     ELSE IF Cardinality(dChord[c].hits) < Cardinality(Tones(still))
          THEN DispatchFail(c, still, "chord-timeout", closed)
          ELSE DispatchResult("none", movingNotes, Globals, closed, <<>>, {})

DispatchApply(r) ==
  /\ movingNotes' = r.notes
  /\ gLives' = r.g.lives
  /\ gBassLives' = r.g.bass
  /\ gTrebleLives' = r.g.treble
  /\ dChord' = r.ch
  /\ score' = IF r.kind = "success" THEN score + 1 ELSE score
  /\ ev' = r.ev
  /\ Record(r.ev)

DispatchNoteOn(midi) ==
  /\ unit = "dispatch"
  /\ LET r == Dispatch(midi)
     IN /\ DispatchApply(r)
        /\ timers' = timers \cup r.tm
  /\ op' = "noteOn"
  /\ UNCHANGED <<unit, feed, generated, inFlight, levelVars, inits, stamp, nextId, pianoModeActive, gameRunning, hands,
                 coreVars, queueVars, oneVars>>

DispatchTimeout(tm) ==
  /\ unit = "dispatch"
  /\ tm \in timers
  /\ Due(tm)
  /\ DispatchApply(DispatchTimeoutResult(tm))
  /\ timers' = timers \ {tm}
  /\ op' = "timeout"
  /\ UNCHANGED <<unit, feed, generated, inFlight, levelVars, inits, stamp, nextId, pianoModeActive, gameRunning, hands,
                 coreVars, queueVars, oneVars>>

\* the game starts a round: gameRunning, and dual-lane mode on or off
StartGame(p) ==
  /\ unit = "dispatch"
  /\ ~gameRunning
  /\ gameRunning' = TRUE
  /\ pianoModeActive' = p
  /\ op' = "init"
  /\ ev' = <<>>
  /\ UNCHANGED <<unit, feed, generated, inFlight, levelVars, inits, stamp, nextId, timers, gLives, gBassLives, gTrebleLives, score,
                 movingNotes, hands, dChord, coreVars, queueVars, oneVars, ghostVars>>

\* the running game puts a target on screen: movingNotes.push
SpawnMoving(c, t) ==
  /\ unit = "dispatch"
  /\ gameRunning
  /\ nextId <= MaxShown
  /\ Len(movingNotes) < MaxMoving
  /\ movingNotes' = Append(movingNotes, MovingNote(c, t))
  /\ nextId' = nextId + 1
  /\ op' = "push"
  /\ ev' = <<>>
  /\ UNCHANGED <<unit, feed, generated, inFlight, levelVars, inits, stamp, timers, globalVars, gameRunning, hands, dChord,
                 coreVars, queueVars, oneVars, ghostVars>>

\* updatePianoModeSettings({leftHand / rightHand}): _modeOf(clef) becomes m
SetHand(c, m) ==
  /\ unit = "dispatch"
  /\ hands[c] # m
  /\ hands' = [hands EXCEPT ![c] = m]
  /\ op' = "setMode"
  /\ ev' = <<>>
  /\ UNCHANGED <<unit, feed, generated, inFlight, levelVars, inits, stamp, nextId, timers, globalVars, gameRunning, movingNotes,
                 dChord, coreVars, queueVars, oneVars, ghostVars>>

\* time passes: performance.now() moves on
DispatchTick(d) ==
  /\ unit = "dispatch"
  /\ stamp < MaxStamps
  /\ timers # {}
  /\ \A tm \in timers : tm.elapsed + d <= tm.delay + MaxLate
  /\ d = FineStep => \E tm \in timers : tm.elapsed >= DISPATCH_TIMEOUT_MS
  /\ timers' = {[tm EXCEPT !.elapsed = @ + d] : tm \in timers}
  /\ stamp' = stamp + 1
  /\ op' = "tick"
  /\ ev' = <<>>
  /\ UNCHANGED <<unit, feed, generated, inFlight, levelVars, inits, nextId, globalVars, dispatchVars, coreVars, queueVars, oneVars,
                 ghostVars>>

NextDispatch ==
  \/ \E midi \in Pitches : DispatchNoteOn(midi)
  \/ \E tm \in timers : DispatchTimeout(tm)
  \/ \E p \in BOOLEAN : StartGame(p)
  \/ \E c \in Clefs : \E t \in DispatchTargets(c, nextId) : SpawnMoving(c, t)
  \/ \E c \in Clefs, m \in {"melody", "chord"} : SetHand(c, m)
  \/ \E d \in TickSteps : DispatchTick(d)
\* ============ midi-integration.ts, the onNoteInput callback ("midi")
\* The callback registered by initializeMidiIntegration hands its note to
\* handleNoteOnOneAtATime and then to dispatchNoteOn; nothing runs in between.
\* settings.playMode is left at its default, 'normal' for both clefs, so the
\* one-at-a-time lanes hold single notes.
MidiPitches == {41, 55, 59, 60}
MidiSpawnable(l) == BuildNextTarget(l, "normal")
MidiFirst(l) == IF lanes[l].active.kind = "none" THEN MidiSpawnable(l) ELSE {NoTarget}
MidiNext(midi, strict, first) ==
  LET l == OneLane(midi)
      r == OneDispatch(l, SpawnNext(lanes[l], first), midi, strict, NoTarget)
  IN IF r.kind \in {"success", "fail"} THEN MidiSpawnable(l) ELSE {NoTarget}
\* no callback is running; what the last one left is forgotten at the next step
Idle == inFlight.stage # "one"
\* the game starts a round
MidiStart(p) ==
  /\ unit = "midi"
  /\ Idle
  /\ ~gameRunning
  /\ gameRunning' = TRUE
  /\ pianoModeActive' = p
  /\ op' = "init"
  /\ ev' = <<>>
  /\ inFlight' = NoNote
  /\ UNCHANGED <<unit, feed, generated, levelVars, inits, stamp, nextId, timers, gLives, gBassLives,
                 gTrebleLives, score, movingNotes, hands, dChord, coreVars, queueVars, oneVars, ghostVars>>
\* the running game puts a target on screen
MidiSpawn(c, t) ==
  /\ unit = "midi"
  /\ Idle
  /\ gameRunning
  /\ nextId <= MaxIds
  /\ Len(movingNotes) < MaxMoving
  /\ movingNotes' = Append(movingNotes, MovingNote(c, t))
  /\ nextId' = nextId + 1
  /\ op' = "push"
  /\ ev' = <<>>
  /\ inFlight' = NoNote
  /\ UNCHANGED <<unit, feed, generated, levelVars, inits, stamp, timers, globalVars, gameRunning, hands,
                 dChord, coreVars, queueVars, oneVars, ghostVars>>
MidiSetHand(c, m) ==
  /\ unit = "midi"
  /\ Idle
  /\ hands[c] # m
  /\ hands' = [hands EXCEPT ![c] = m]
  /\ op' = "setMode"
  /\ ev' = <<>>
  /\ inFlight' = NoNote
  /\ UNCHANGED <<unit, feed, generated, levelVars, inits, stamp, nextId, timers, globalVars, gameRunning,
                 movingNotes, dChord, coreVars, queueVars, oneVars, ghostVars>>
\* the callback's first call: handleNoteOnOneAtATime(noteMapping.midiNote, 64)
MidiNoteOne(midi, strict, first, nxt) ==
  /\ unit = "midi"
  /\ Idle
  /\ LET l == OneLane(midi)
         r == OneDispatch(l, SpawnNext(lanes[l], first), midi, strict, nxt)
     IN /\ OneApply(l, r)
        /\ timers' = timers \cup r.tm
        /\ inFlight' = [stage |-> "one", midi |-> midi, ev |-> r.ev, g |-> Globals]
  /\ op' = "noteOn"
  /\ UNCHANGED <<unit, feed, generated, levelVars, dispatchVars, inits, stamp, nextId, pianoModeActive, score,
                 coreVars, queueVars>>
\* the callback's second call: dispatchNoteOn(noteMapping.midiNote, 64)
MidiNoteDispatch ==
  /\ unit = "midi"
  /\ inFlight.stage = "one"
  /\ LET r == Dispatch(inFlight.midi)
     IN /\ movingNotes' = r.notes
        /\ gLives' = r.g.lives
        /\ gBassLives' = r.g.bass
        /\ gTrebleLives' = r.g.treble
        /\ dChord' = r.ch
        /\ score' = IF r.kind = "success" THEN score + 1 ELSE score
        /\ ev' = inFlight.ev \o r.ev
        /\ timers' = timers \cup r.tm
        /\ inFlight' = [inFlight EXCEPT !.stage = "done", !.ev = @ \o r.ev]
  /\ op' = "callback"
  /\ UNCHANGED <<unit, feed, generated, levelVars, inits, stamp, nextId, pianoModeActive, gameRunning, hands,
                 coreVars, queueVars, oneVars, ghostVars>>
\* the closure scheduled by dispatchNoteOn
MidiTimeout(tm) ==
  /\ unit = "midi"
  /\ Idle
  /\ tm \in timers
  /\ Due(tm)
  /\ DispatchApply(DispatchTimeoutResult(tm))
  /\ timers' = timers \ {tm}
  /\ op' = "timeout"
  /\ inFlight' = NoNote
  /\ UNCHANGED <<unit, feed, generated, levelVars, inits, stamp, nextId, pianoModeActive, gameRunning,
                 hands, coreVars, queueVars, oneVars>>
MidiTick(d) ==
  /\ unit = "midi"
  /\ Idle
  /\ stamp < MaxStamps
  /\ timers # {}
  /\ \A tm \in timers : tm.elapsed + d <= tm.delay + MaxLate
  /\ d = FineStep => \E tm \in timers : tm.elapsed >= DISPATCH_TIMEOUT_MS
  /\ timers' = {[tm EXCEPT !.elapsed = @ + d] : tm \in timers}
  /\ stamp' = stamp + 1
  /\ op' = "tick"
  /\ ev' = <<>>
  /\ inFlight' = NoNote
  /\ UNCHANGED <<unit, feed, generated, levelVars, inits, nextId, globalVars, dispatchVars, coreVars,
                 queueVars, oneVars, ghostVars>>
NextMidi ==
  \/ \E p \in BOOLEAN : MidiStart(p)
  \/ \E c \in Clefs : \E t \in DispatchTargets(c, nextId) : MidiSpawn(c, t)
  \/ \E m \in {"melody", "chord"} : MidiSetHand("bass", m)
  \/ /\ unit = "midi"
     /\ \E midi \in MidiPitches : \E first \in MidiFirst(OneLane(midi)) :
          \E strict \in StrictOpts(midi, first) : \E nxt \in MidiNext(midi, strict, first) :
             MidiNoteOne(midi, strict, first, nxt)
  \/ MidiNoteDispatch
  \/ \E tm \in timers : MidiTimeout(tm)
  \/ \E d \in TickSteps : MidiTick(d)
\* ================== level-dependent speed and spawn cadence ("levels")
\* globalThis.gameLevel || globalThis.level || 1: a level of 0 reads as 1
EffectiveLevel(level) == IF level = 0 THEN 1 ELSE level
\* speedForLevel(level), px/s
SpeedForLevel(level) ==
  LET base == 220
      inc == 15
      v == base + inc * Max(0, level)
  IN Min(520, Max(160, v))
\* initializeLanes: baseSpawnInterval(level), the lanes' spawnIntervalMs
BaseSpawnInterval(level) == Max(800, 2200 - (level - 1) * 200)
\* initializeLanes: spawnIntervalChordMs(level) = baseSpawnInterval(level) *
\* CHORD_SPAWN_MULTIPLIER, kept in quarters of a millisecond: 1.25 = 5/4
SpawnIntervalChordQuarterMs(level) == BaseSpawnInterval(level) * 5
\* piano-core init: the default baseSpawn(lvl)
CoreBaseSpawn(lvl) == Max(300, 900 - lvl * 30)
\* Math.round(x * CHORD_SPAWN_MULTIPLIER) for an integer x >= 0; a half rounds up
RoundTimesMultiplier(x) == (5 * x + 2) \div 4
\* piano-core init: spawnIntervalChordMs(lvl)
CoreSpawnIntervalChordMs(lvl) == RoundTimesMultiplier(CoreBaseSpawn(lvl))
\* the intervals the lanes' functions return at a level
Cadence(level) ==
  [melody |-> BaseSpawnInterval(level), chordQ |-> SpawnIntervalChordQuarterMs(level),
   coreMelody |-> CoreBaseSpawn(level), coreChord |-> CoreSpawnIntervalChordMs(level)]

\* the game moves to the next level
LevelUp ==
  /\ unit = "levels"
  /\ gameLevel < MaxLevel
  /\ gameLevel' = gameLevel + 1
  /\ cadence' = Cadence(gameLevel + 1)
  /\ op' = "level"
  /\ ev' = <<>>
  /\ UNCHANGED <<unit, feed, generated, inFlight, laneSpeed, nextId, inits, stamp, timers, globalVars, coreVars, queueVars,
                 oneVars, dispatchVars, ghostVars>>
\* spawnNext(lane): the speed it hands to spawnVisualTarget with the target
SpawnAtLevel(l) ==
  /\ unit = "levels"
  /\ laneSpeed' = [laneSpeed EXCEPT ![l] = SpeedForLevel(EffectiveLevel(gameLevel))]
  /\ op' = "spawn"
  /\ ev' = <<>>
  /\ UNCHANGED <<unit, feed, generated, inFlight, gameLevel, cadence, nextId, inits, stamp, timers, globalVars, coreVars,
                 queueVars, oneVars, dispatchVars, ghostVars>>
\* ===================== piano-core and lane-system side by side ("both")
\* The two queued evaluators started from the same lanes and fed the same
\* calls: every step below hands one call to both of them.
CoreTimerDelay == CHORD_WINDOW_MS + CORE_TIMEOUT_SLACK
QueueTimerDelay == CHORD_WINDOW_MS + QUEUE_TIMEOUT_SLACK
BothStep(cl, w, tms, es, o) ==
  /\ cLanes' = cl
  /\ laneStates' = w.lanes
  /\ gLives' = w.lives
  /\ gBassLives' = w.bass
  /\ gTrebleLives' = w.treble
  /\ timers' = tms
  /\ ev' = es
  /\ op' = o
\* init({pianoModeActive: p, bassLives: n, trebleLives: n, monoLives: n}) on one
\* side; on the other the counters set to n, initializeLanes(), and
\* updateLaneState(lane, {lives: n}) for every lane
BothStart(p, n) ==
  /\ unit = "both"
  /\ op = "load"
  /\ piano' = p
  /\ pianoModeActive' = p
  /\ BothStep([l \in LaneIds |-> CoreInitLane(cLanes[l], n, "absent")],
              [lanes |-> [l \in LaneIds |->
                            IF InitializedLanes(p)[l].present
                            THEN [InitializedLanes(p)[l] EXCEPT !.lives = n]
                            ELSE InitializedLanes(p)[l]],
               lives |-> n, bass |-> n, treble |-> n],
              timers, <<>>, "init")
  /\ UNCHANGED <<unit, feed, generated, inFlight, levelVars, dispatchVars, inits, stamp, nextId, score, oneVars, ghostVars>>
\* setLaneMode(l, m) while the lane is empty, so that mode and head kind agree
BothSetMode(l, m) ==
  /\ unit = "both"
  /\ op # "load"
  /\ cLanes[l].queue = <<>>
  /\ cLanes[l].mode # m
  /\ BothStep([cLanes EXCEPT ![l].mode = m], World, timers, <<>>, "setMode")
  /\ UNCHANGED <<unit, feed, generated, inFlight, levelVars, dispatchVars, inits, stamp, nextId, piano, pianoModeActive, score, oneVars, ghostVars>>
\* pushTarget(l, t) and spawnTarget(l, t) with the same target
BothPush(l, t) ==
  /\ unit = "both"
  /\ op # "load"
  /\ t.kind = cLanes[l].mode
  /\ nextId <= MaxIds
  /\ Len(cLanes[l].queue) < MaxQueue
  /\ Len(laneStates[l].queue) < MaxQueue
  /\ nextId' = nextId + 1
  /\ BothStep([cLanes EXCEPT ![l].queue = Append(@, t)],
              [World EXCEPT !.lanes[l].queue = Append(@, t)], timers, <<>>, "push")
  /\ UNCHANGED <<unit, feed, generated, inFlight, levelVars, dispatchVars, inits, stamp, piano, pianoModeActive, score, oneVars, ghostVars>>
\* onNoteOn(midi) and handleMidiNoteOn(midi)
BothNoteOn(midi) ==
  /\ unit = "both"
  /\ op # "load"
  /\ LET lc == CoreRouteLane(midi, piano)
         rc == CoreDispatch(lc, cLanes[lc], midi)
         rq == QueueDispatch(RoutedClef(midi), midi)
         after == [cLanes EXCEPT ![lc] = rc.ls]
         ec == IF rc.kind = "success" THEN CoreSuccessEvents(lc, cLanes[lc])
               ELSE IF rc.kind = "fail"
                    THEN CoreFailEvents(lc, cLanes[lc].queue[1], rc.why, after)
                    ELSE <<>>
     IN BothStep(after, rq.w, timers \cup rc.tm \cup rq.tm, ec \o rq.ev, "noteOn")
  /\ score' = IF QueueDispatch(RoutedClef(midi), midi).kind = "success" THEN score + 1 ELSE score
  /\ UNCHANGED <<unit, feed, generated, inFlight, levelVars, dispatchVars, inits, stamp, nextId, piano, pianoModeActive, oneVars, ghostVars>>
\* the timeouts both evaluators scheduled for chord i of lane l fire together
BothTimeout(l, i) ==
  /\ unit = "both"
  /\ LET tc == {tm \in timers : tm.lane = l /\ tm.id = i /\ tm.delay = CoreTimerDelay}
         tq == {tm \in timers : tm.lane = l /\ tm.id = i /\ tm.delay = QueueTimerDelay}
         rc == IF tc = {} THEN CoreNoChange(cLanes[l])
               ELSE CoreTimeoutResult(cLanes[l], CHOOSE tm \in tc : TRUE)
         rq == IF tq = {} THEN QueueNoChange ELSE ChordTimeoutResult(CHOOSE tm \in tq : TRUE)
         after == [cLanes EXCEPT ![l] = rc.ls]
         ec == IF rc.kind = "fail"
               THEN CoreFailEvents(l, cLanes[l].queue[1], rc.why, after) ELSE <<>>
     IN /\ tc \cup tq # {}
        /\ \A tm \in tc \cup tq : Due(tm)
        /\ BothStep(after, rq.w, timers \ (tc \cup tq), ec \o rq.ev, "timeout")
  /\ UNCHANGED <<unit, feed, generated, inFlight, levelVars, dispatchVars, inits, stamp, nextId, piano, pianoModeActive, score, oneVars, ghostVars>>
BothTick(d) ==
  /\ unit = "both"
  /\ Tick(d)
NextBoth ==
  \/ \E p \in BOOLEAN, n \in 1..START_LIVES : BothStart(p, n)
  \/ \E l \in InPlay(piano), m \in {"melody", "chord"} : BothSetMode(l, m)
  \/ \E l \in InPlay(piano) : \E t \in LaneTargets(l, nextId) : BothPush(l, t)
  \/ \E midi \in Pitches : BothNoteOn(midi)
  \/ \E l \in LaneIds, i \in 1..MaxIds : BothTimeout(l, i)
  \/ \E d \in TickSteps : BothTick(d)
\* ------------------------------------------------ the target generators
\* Ranges handed to the range-taking generators: the lanes' ranges, and two
\* narrow ones in which a triad does not fit.
NarrowRanges == {[min |-> 60, max |-> 60], [min |-> 60, max |-> 66]}
TargetRanges == {LaneRange(l) : l \in LaneIds} \cup NarrowRanges
\* `lane` is the lane a lane-taking generator was called for
Generated(fn, l, r, mids) ==
  [fn |-> fn, lane |-> l, min |-> r.min, max |-> r.max, mids |-> mids]

\* seedInRange(min, max): the values it can return
SeedInRange(lo, hi) == {lo + k : k \in RandomIndex(hi - lo + 1)}
\* pick(arr)
Pick(arr) == {arr[k + 1] : k \in RandomIndex(Len(arr))}
\* pickChordRootInRange without its Math.min(max, ...)
PickChordRootWide(lo, hi) == SeedInRange(lo, lo + 12)
\* pickChordRootInRange
PickChordRootInRange(lo, hi) == SeedInRange(lo, Min(hi, lo + 12))
\* buildTriad
BuildTriad(root, quality) ==
  IF quality = "maj" THEN <<root, root + 4, root + 7>> ELSE <<root, root + 3, root + 7>>
\* fitChordToRange: the two while loops, then the filter
RECURSIVE FoldUp(_, _)
FoldUp(tone, lo) == IF tone < lo THEN FoldUp(tone + 12, lo) ELSE tone
RECURSIVE FoldDown(_, _)
FoldDown(tone, hi) == IF tone > hi THEN FoldDown(tone - 12, hi) ELSE tone
FitChordToRange(tones, lo, hi) ==
  SelectSeq([i \in 1..Len(tones) |-> FoldDown(FoldUp(tones[i], lo), hi)],
            LAMBDA t : t >= lo /\ t <= hi)

\* nextMelodyTargetInRange: getLastMelodyMidiFromAnySource returns undefined,
\* so the base is always a fresh seed
NextMelodyTargetInRange(r) ==
  {Clamp(base + st, r.min, r.max) : base \in SeedInRange(r.min, r.max), st \in Pick(StepChoices)}
\* nextChordTargetInRange
NextChordTargetInRange(r) ==
  {Dedup(FitChordToRange(BuildTriad(root, q), r.min, r.max)) :
     root \in PickChordRootInRange(r.min, r.max), q \in Pick(<<"maj", "min">>)}
\* nextSingleNoteInRange and nextChordInRange over every random draw
AnySingleNoteInRange(l) == {SingleNoteOf(LaneRange(l), st) : st \in Pick(StepsArray)}
AnyChordInRange(l) ==
  LET r == LaneRange(l)
  IN {ChordOfRoot(ChordRootOf(r, k), r) : k \in RandomIndex(r.max - r.min - 7)}

Generate(g) ==
  /\ unit = "gen"
  /\ generated' = g
  /\ op' = "generate"
  /\ ev' = <<>>
  /\ UNCHANGED <<unit, feed, inFlight, levelVars, dispatchVars, inits, stamp, nextId, timers, pianoModeActive,
                 gLives, gBassLives, gTrebleLives, score, coreVars, queueVars, oneVars, ghostVars>>
GenSingleNote(l) ==
  \E n \in AnySingleNoteInRange(l) : Generate(Generated("nextSingleNoteInRange", l, LaneRange(l), <<n>>))
GenChord(l) ==
  \E c \in AnyChordInRange(l) : Generate(Generated("nextChordInRange", l, LaneRange(l), c))
GenMelodyTarget(r) ==
  \E n \in NextMelodyTargetInRange(r) : Generate(Generated("nextMelodyTargetInRange", "none", r, <<n>>))
GenChordTarget(r) ==
  \E c \in NextChordTargetInRange(r) : Generate(Generated("nextChordTargetInRange", "none", r, c))
NextGen ==
  \/ \E l \in LaneIds : GenSingleNote(l)
  \/ \E l \in LaneIds : GenChord(l)
  \/ \E r \in TargetRanges : GenMelodyTarget(r)
  \/ \E r \in TargetRanges : GenChordTarget(r)
NextLevels ==
  \/ LevelUp
  \/ \E l \in LaneIds : SpawnAtLevel(l)
NextOne ==
  \/ /\ unit = "one"
     /\ \E midi \in OnePitches : \E first \in FirstSpawn(OneLane(midi)) :
          \E strict \in StrictOpts(midi, first) : \E nxt \in NextSpawn(midi, strict, first) :
             HandleNoteOnOneAtATime(midi, strict, first, nxt)
  \/ /\ unit = "one"
     /\ \E tm \in timers : \E nxt \in TimeoutSpawn(tm) : OneTimeout(tm, nxt)
  \/ /\ unit = "one"
     /\ \E tb \in PickFor("bass"), tt \in PickFor("treble"), tn \in PickFor("mono") :
          GameTickLoop([bass |-> tb, treble |-> tt, mono |-> tn])
  \/ TogglePiano
  \/ \E d \in TickSteps : OneTick(d)

NextQueue ==
  \/ \E midi \in Pitches : HandleMidiNoteOn(midi)
  \/ \E tm \in timers : ChordTimeoutCheck(tm)
  \/ InitializeLanes
  \/ \E p \in BOOLEAN : HarnessSetup(p)
  \/ \E l \in LaneIds : \E t \in FedTargets(l, nextId) : SpawnTarget(l, t)
  \/ \E d \in TickSteps : unit = "queue" /\ Tick(d)

NextCore ==
  \/ \E midi \in Pitches : CoreOnNoteOn(midi)
  \/ \E tm \in timers : CoreTimeout(tm)
  \/ \E p \in BOOLEAN, n \in LivesOpts, ms \in ModeOpts :
        (n = UNDEF => p = piano) /\ CoreInit(p, n, n, n, ms)
  \/ \E l \in InPlay(piano) : \E t \in FedTargets(l, nextId) : CorePushTarget(l, t)
  \/ \E l \in InPlay(piano) \ {"treble"}, m \in {"melody", "chord"} : CoreSetLaneMode(l, m)
  \/ \E d \in TickSteps : unit = "core" /\ Tick(d)

InitFed(f) ==
  /\ feed = f
  /\ nextId = 1
  /\ inits = 0
  /\ stamp = 0
  /\ timers = {}
  /\ piano = FALSE
  /\ cLanes = [l \in LaneIds |-> CoreLane("melody", START_LIVES)]
  /\ pianoModeActive \in (IF unit = "gen" THEN BOOLEAN ELSE {FALSE})
  /\ gLives = START_LIVES
  /\ gBassLives = START_LIVES
  /\ gTrebleLives = START_LIVES
  /\ score = 0
  /\ laneStates = [l \in LaneIds |-> QueueAbsent]
  /\ lanes = [l \in LaneIds |-> OneEmpty]
  /\ gameRunning = FALSE
  /\ movingNotes = <<>>
  /\ hands = [c \in Clefs |-> "melody"]
  /\ dChord = [c \in Clefs |-> NoWindow]
  /\ gameLevel \in (IF unit = "levels" THEN {0, 1} ELSE {1})
  /\ laneSpeed = [l \in LaneIds |-> UNDEF]
  /\ cadence = Cadence(gameLevel)
  /\ generated = NotGenerated
  /\ inFlight = NoNote
  /\ op = "load"
  /\ ev = <<>>
  /\ resolved = {}
  /\ twice = {}

InitCommon == InitFed("usual")
InitCore == unit = "core" /\ InitCommon
SpecCore == InitCore /\ [][NextCore]_vars
InitQueue == unit = "queue" /\ InitCommon
SpecQueue == InitQueue /\ [][NextQueue]_vars
InitOne == unit = "one" /\ InitCommon
SpecOne == InitOne /\ [][NextOne]_vars
InitDispatch == unit = "dispatch" /\ InitCommon
SpecDispatch == InitDispatch /\ [][NextDispatch]_vars
InitLevels == unit = "levels" /\ InitCommon
SpecLevels == InitLevels /\ [][NextLevels]_vars
InitGen == unit = "gen" /\ InitCommon
SpecGen == InitGen /\ [][NextGen]_vars
\* the two queued evaluators side by side
InitBoth == unit = "both" /\ InitCommon
SpecBoth == InitBoth /\ [][NextBoth]_vars
\* the MIDI callback over both of its evaluators
InitMidi == unit = "midi" /\ InitCommon
SpecMidi == InitMidi /\ [][NextMidi]_vars
Init == unit \in {"core", "queue", "one"} /\ InitCommon
Next == NextCore \/ NextQueue \/ NextOne
Spec == Init /\ [][Next]_vars
\* the two queued evaluators fed with degenerate chords
InitEdge == unit \in {"core", "queue"} /\ InitFed("edge")
NextEdge == NextCore \/ NextQueue
SpecEdge == InitEdge /\ [][NextEdge]_vars
\* ================================================================ claims
HasEvent(es, n, l) == \E k \in 1..Len(es) : es[k].n = n /\ es[k].lane = l
HasOutcome(es) == \E k \in 1..Len(es) : IsOutcome(es[k])
DueTimers == {tm \in timers : Due(tm)}

\* C1 - Melody strict rule (lane-system handleMidiNoteOn): in every reachable
\* state, a note-on whose pitch differs from the pitch of the melody at the head
\* of the enabled lane it is routed to is a fail that costs the lane exactly one
\* life and removes that head, so that the next queued target, if any, becomes
\* the head.
C1_MelodyStrictRule ==
  \A midi \in Pitches :
    LET l == RoutedClef(midi)
        ls == laneStates[l]
        r == QueueDispatch(l, midi)
    IN (unit = "queue" /\ ls.present /\ ls.enabled /\ ls.queue # <<>>
        /\ ls.queue[1].kind = "melody" /\ midi # ls.queue[1].midi)
       => /\ r.kind = "fail"
          /\ r.w.lanes[l].lives = ls.lives - 1
          /\ r.w.lanes[l].queue = Tail(ls.queue)
          /\ \E k \in 1..Len(r.ev) : r.ev[k].n = "fail" /\ r.ev[k].id = ls.queue[1].id
\* a wrong note has just failed the melody at the head of the mono lane, which
\* had three lives, and the target queued behind it is the head now
C1_Witness ==
  /\ unit = "queue"
  /\ op = "noteOn"
  /\ \E k \in 1..Len(ev) : ev[k].n = "fail" /\ ev[k].kind = "melody" /\ ev[k].lane = "mono"
  /\ laneStates["mono"].lives = START_LIVES - 1
  /\ laneStates["mono"].queue # <<>>

\* C2 - Chord stray rule (piano-core onNoteOn): in every reachable state, a
\* note-on routed to an enabled lane whose head is a chord, with a pitch that is
\* no tone of that chord, fails the chord in that step with reason chord-stray:
\* the head is removed, the window is cleared, the lane loses exactly one life.
C2_ChordStrayRule ==
  \A midi \in Pitches :
    LET l == CoreRouteLane(midi, piano)
        ls == cLanes[l]
        r == CoreDispatch(l, ls, midi)
    IN (unit = "core" /\ ls.enabled /\ ls.queue # <<>> /\ ls.queue[1].kind = "chord"
        /\ midi \notin Tones(ls.queue[1]))
       => /\ r.kind = "fail"
          /\ r.why = "chord-stray"
          /\ r.ls.lives = ls.lives - 1
          /\ r.ls.queue = Tail(ls.queue)
          /\ ~r.ls.chordRT.open

\* C3 - Chord completeness (piano-core onNoteOn): in every reachable state, a
\* tone of the chord at the head of an enabled lane, routed to that lane, never
\* costs a life; it resolves the chord as success - head removed, window
\* cleared - exactly when it is the last tone missing, and is collected in the
\* window otherwise; and no target ever gets a second outcome.
C3_ChordCompleteness ==
  /\ twice = {}
  /\ \A midi \in Pitches :
       LET l == CoreRouteLane(midi, piano)
           ls == cLanes[l]
           r == CoreDispatch(l, ls, midi)
       IN (unit = "core" /\ ls.enabled /\ ls.queue # <<>> /\ ls.queue[1].kind = "chord"
           /\ midi \in Tones(ls.queue[1]))
          => LET t == ls.queue[1]
                 had == IF ls.chordRT.open /\ ls.chordRT.activeId = t.id
                        THEN ls.chordRT.collected ELSE {}
                 done == Tones(t) \subseteq (had \cup {midi})
             IN /\ r.ls.lives = ls.lives
                /\ done => /\ r.kind = "success"
                           /\ r.ls.queue = Tail(ls.queue)
                           /\ ~r.ls.chordRT.open
                /\ ~done => /\ r.kind = "collect"
                            /\ r.ls.queue = ls.queue
                            /\ r.ls.chordRT.open
                            /\ r.ls.chordRT.collected = had \cup {midi}

\* C4 - Chord timeout: in every reachable state, a timeout callback that is due
\* while the chord it was scheduled for is still the head of its lane, with the
\* window that scheduled it still open and fewer than all of the chord's tones
\* collected, fails that chord with reason chord-timeout: the head is removed,
\* the window is cleared and the lane loses exactly one life.
C4_ChordTimeout ==
  \A tm \in DueTimers :
    /\ unit = "core" =>
         LET ls == cLanes[tm.lane]
             r == CoreTimeoutResult(ls, tm)
         IN (ls.queue # <<>> /\ ls.queue[1].kind = "chord" /\ ls.queue[1].id = tm.id
             /\ ls.chordRT.open /\ ls.chordRT.activeId = tm.id
             /\ Cardinality(ls.chordRT.collected) < Cardinality(Tones(ls.queue[1])))
            => /\ r.kind = "fail" /\ r.why = "chord-timeout"
               /\ r.ls.queue = Tail(ls.queue)
               /\ ~r.ls.chordRT.open
               /\ r.ls.lives = ls.lives - 1
    /\ unit = "queue" =>
         LET ls == laneStates[tm.lane]
             r == ChordTimeoutResult(tm)
         IN (ls.present /\ ls.queue # <<>> /\ ls.queue[1].kind = "chord"
             /\ ls.queue[1].id = tm.id
             /\ ls.chordRuntime.open /\ ls.chordRuntime.activeId = tm.id
             /\ Cardinality(ls.chordRuntime.collected) < Cardinality(Tones(ls.queue[1])))
            => /\ r.kind = "fail"
               /\ r.w.lanes[tm.lane].queue = Tail(ls.queue)
               /\ ~r.w.lanes[tm.lane].chordRuntime.open
               /\ r.w.lanes[tm.lane].lives = ls.lives - 1
    /\ unit = "one" =>
         LET ln == lanes[tm.lane]
         IN (ln.active.kind = "chord" /\ ln.active.id = tm.id /\ ln.chordStart = tm.started
             /\ Cardinality(ln.chordHits) < Cardinality(Tones(ln.active)))
            => \A nxt \in Spawnable(tm.lane) :
                 LET r == OneTimeoutResult(tm, nxt)
                 IN /\ r.kind = "fail"
                    /\ \E k \in 1..Len(r.ev) : r.ev[k].n = "fail" /\ r.ev[k].why = "chord-timeout"
                    /\ r.ln.chordStart = UNDEF
                    /\ OneLives(r.g, tm.lane) = OneLives(Globals, tm.lane) - 1

\* C5 - Stale-timer guard (piano-core closure, lane-system chordTimeoutCheck): in
\* every reachable state, a timeout callback that is due when the chord it was
\* scheduled for has already been resolved, or is not the head of its lane - be
\* the lane empty or headed by another target, with or without a window of its
\* own - changes nothing and emits nothing.
C5_StaleTimerGuard ==
  \A tm \in DueTimers :
    /\ unit = "core" =>
         LET ls == cLanes[tm.lane]
         IN (tm.id \in resolved \/ ls.queue = <<>> \/ ls.queue[1].id # tm.id)
            => CoreTimeoutResult(ls, tm) = CoreNoChange(ls)
    /\ unit = "queue" =>
         LET ls == laneStates[tm.lane]
         IN (tm.id \in resolved \/ ls.queue = <<>> \/ ls.queue[1].id # tm.id)
            => ChordTimeoutResult(tm) = QueueNoChange
\* the timeout of a chord that has failed has just fired and done nothing, while
\* the chord queued behind it is the head with a window of its own open and its
\* own timeout pending
C5_Witness ==
  /\ unit = "core"
  /\ op = "timeout"
  /\ ev = <<>>
  /\ resolved # {}
  /\ \E l \in LaneIds :
       /\ cLanes[l].queue # <<>>
       /\ cLanes[l].queue[1].kind = "chord"
       /\ cLanes[l].queue[1].id \notin resolved
       /\ cLanes[l].chordRT.open
       /\ cLanes[l].chordRT.activeId = cLanes[l].queue[1].id
       /\ cLanes[l].chordRT.collected # {}
       /\ \E tm \in timers : tm.lane = l /\ tm.id = cLanes[l].queue[1].id

\* C6 - Disabled lane: in every reachable state a lane whose lives are 0 is
\* disabled, and neither a note-on routed to it (onNoteOn, handleMidiNoteOn,
\* handleNoteOnOneAtATime) nor a due timeout of it changes its lives, its queue
\* or active target, or emits a success or a fail.
C6_DisabledLaneIgnored ==
  /\ unit = "core" =>
       /\ \A l \in LaneIds : cLanes[l].lives = 0 => ~cLanes[l].enabled
       /\ \A midi \in Pitches :
            LET l == CoreRouteLane(midi, piano)
            IN cLanes[l].lives = 0 => CoreDispatch(l, cLanes[l], midi) = CoreNoChange(cLanes[l])
       /\ \A tm \in DueTimers :
            cLanes[tm.lane].lives = 0
              => CoreTimeoutResult(cLanes[tm.lane], tm) = CoreNoChange(cLanes[tm.lane])
  /\ unit = "queue" =>
       /\ \A l \in LaneIds : (laneStates[l].present /\ laneStates[l].lives = 0)
                               => ~laneStates[l].enabled
       /\ \A midi \in Pitches :
            LET l == RoutedClef(midi)
            IN (laneStates[l].present /\ laneStates[l].lives = 0)
                 => QueueDispatch(l, midi) = QueueNoChange
       /\ \A tm \in DueTimers :
            (laneStates[tm.lane].present /\ laneStates[tm.lane].lives = 0)
              => ChordTimeoutResult(tm) = QueueNoChange
  /\ unit = "one" =>
       /\ \A midi \in OnePitches :
            LET l == OneLane(midi)
            IN OneLives(Globals, l) = 0
                 => \A first \in FirstSpawn(l), strict \in BOOLEAN, nxt \in Spawnable(l) :
                      LET r == OneDispatch(l, SpawnNext(lanes[l], first), midi, strict, nxt)
                      IN r.ln = lanes[l] /\ r.g = Globals /\ ~HasOutcome(r.ev)
       /\ \A tm \in DueTimers :
            OneLives(Globals, tm.lane) = 0
              => \A nxt \in Spawnable(tm.lane) :
                   LET r == OneTimeoutResult(tm, nxt)
                   IN r.ln = lanes[tm.lane] /\ r.g = Globals /\ ~HasOutcome(r.ev)

\* C7 - Lives never negative: in every reachable state the lives of every lane of
\* every evaluator, and the life counters the lane-system mirrors them in, are
\* at least 0.
C7_LivesNeverNegative ==
  /\ \A l \in LaneIds : cLanes[l].lives >= 0 /\ laneStates[l].lives >= 0
  /\ gLives >= 0
  /\ gBassLives >= 0
  /\ gTrebleLives >= 0
\* a timeout has just fired on a piano-core lane that has no life left and whose
\* head is a chord
C7_Witness ==
  /\ unit = "core"
  /\ op = "timeout"
  /\ \E l \in LaneIds :
       /\ cLanes[l].lives = 0
       /\ cLanes[l].queue # <<>>
       /\ cLanes[l].queue[1].kind = "chord"

\* C8 - Routing: in dual-lane mode every pitch up to 59 routes to the bass lane
\* and every pitch from 60 on to the treble lane, and with the mode off every
\* pitch routes to the mono lane - in piano-core's routeLane and in lane-system's
\* routeLane, _routeClefByMidi and routeClef - and the lane a handler picks in
\* the current mode is the lane these give.
C8_Routing ==
  \A midi \in 0..MaxMidi :
    /\ midi <= 59 => /\ CoreRouteLane(midi, TRUE) = "bass"
                     /\ RouteLane(midi, TRUE) = "bass"
                     /\ RouteClefByMidi(midi) = "bass"
                     /\ RouteClef(midi) = "bass"
    /\ midi >= 60 => /\ CoreRouteLane(midi, TRUE) = "treble"
                     /\ RouteLane(midi, TRUE) = "treble"
                     /\ RouteClefByMidi(midi) = "treble"
                     /\ RouteClef(midi) = "treble"
    /\ CoreRouteLane(midi, FALSE) = "mono"
    /\ RouteLane(midi, FALSE) = "mono"
    /\ RoutedClef(midi) = RouteLane(midi, pianoModeActive)
    /\ OneLane(midi) = RouteLane(midi, pianoModeActive)
    /\ CoreRouteLane(midi, piano) \in InPlay(piano)
\* in dual-lane mode the chord {55, 59} at the head of piano-core's bass lane has
\* just been completed: its tone 59 was routed to the bass lane
C8_Witness ==
  /\ unit = "core"
  /\ piano
  /\ op = "noteOn"
  /\ \E k \in 1..Len(ev) : ev[k].n = "success" /\ ev[k].kind = "chord" /\ ev[k].lane = "bass"

\* C9 - Cross-lane isolation (lane-system): in every reachable state, evaluating
\* a note-on or a due timeout for one lane leaves the lives, the enabled flag,
\* the queue and the chord window of every other lane as they are.
C9_CrossLaneIsolation ==
  /\ \A midi \in Pitches :
       LET l == RoutedClef(midi)
       IN \A o \in LaneIds \ {l} : QueueDispatch(l, midi).w.lanes[o] = laneStates[o]
  /\ \A tm \in DueTimers :
       \A o \in LaneIds \ {tm.lane} : ChordTimeoutResult(tm).w.lanes[o] = laneStates[o]

\* C10 - Zero lives (lane-system): in every reachable state, a note-on or a due
\* timeout whose fail brings its lane's lives to 0 disables that lane and emits a
\* lane-disabled notification for it in the same step, and a game-over
\* notification as well if no lane in play is left enabled.
C10_ZeroLivesNotified ==
  LET Notified(l, r) ==
        (r.kind = "fail" /\ r.w.lanes[l].lives = 0)
          => /\ ~r.w.lanes[l].enabled
             /\ HasEvent(r.ev, "laneDisabled", l)
             /\ (\A o \in InPlay(pianoModeActive) : ~r.w.lanes[o].enabled)
                  => \E k \in 1..Len(r.ev) : r.ev[k].n = "gameOver"
  IN /\ \A midi \in Pitches : Notified(RoutedClef(midi), QueueDispatch(RoutedClef(midi), midi))
     /\ \A tm \in DueTimers : Notified(tm.lane, ChordTimeoutResult(tm))

\* C11 - Melody success (piano-core onNoteOn, lane-system handleMidiNoteOn): in
\* every reachable state, a note-on with exactly the pitch of the melody at the
\* head of the enabled lane it is routed to removes that head, emits one success
\* and nothing else, adds exactly 1 to the score, and leaves the lane's lives
\* and enabled flag as they are.
C11_MelodySuccess ==
  \A midi \in Pitches :
    /\ unit = "core" =>
         LET l == CoreRouteLane(midi, piano)
             ls == cLanes[l]
             r == CoreDispatch(l, ls, midi)
         IN (ls.enabled /\ ls.queue # <<>> /\ ls.queue[1].kind = "melody"
             /\ midi = ls.queue[1].midi)
            => /\ r.kind = "success"
               /\ r.ls.queue = Tail(ls.queue)
               /\ r.ls.lives = ls.lives
               /\ r.ls.enabled = ls.enabled
    /\ unit = "queue" =>
         LET l == RoutedClef(midi)
             ls == laneStates[l]
             r == QueueDispatch(l, midi)
         IN (ls.present /\ ls.enabled /\ ls.queue # <<>> /\ ls.queue[1].kind = "melody"
             /\ midi = ls.queue[1].midi)
            => /\ r.kind = "success"
               /\ r.w.lanes[l].queue = Tail(ls.queue)
               /\ r.w.lanes[l].lives = ls.lives
               /\ r.w.lanes[l].enabled = ls.enabled
               /\ Len(r.ev) = 1 /\ r.ev[1].n = "success" /\ r.ev[1].id = ls.queue[1].id

\* C12 - Duplicate idempotence: in every reachable state in which a lane's chord
\* window is open for its head chord and the chord is not complete, a note-on
\* that is routed to the lane with a tone already collected leaves the lane -
\* collected set, window, queue or active target - and the life counters as
\* they are, schedules no timeout and emits nothing.
C12_DuplicateIdempotence ==
  /\ unit = "core" =>
       \A midi \in Pitches :
         LET l == CoreRouteLane(midi, piano)
             ls == cLanes[l]
             r == CoreDispatch(l, ls, midi)
         IN (ls.queue # <<>> /\ ls.queue[1].kind = "chord" /\ ls.chordRT.open
             /\ ls.chordRT.activeId = ls.queue[1].id /\ midi \in ls.chordRT.collected
             /\ ls.chordRT.collected # Tones(ls.queue[1]))
            => r.ls = ls /\ r.kind \in {"none", "collect"} /\ r.tm = {}
  /\ unit = "queue" =>
       \A midi \in Pitches :
         LET l == RoutedClef(midi)
             ls == laneStates[l]
             r == QueueDispatch(l, midi)
         IN (ls.present /\ ls.queue # <<>> /\ ls.queue[1].kind = "chord"
             /\ ls.chordRuntime.open /\ ls.chordRuntime.activeId = ls.queue[1].id
             /\ midi \in ls.chordRuntime.collected
             /\ ls.chordRuntime.collected # Tones(ls.queue[1]))
            => r.w = World /\ r.ev = <<>> /\ r.tm = {}
  /\ unit = "one" =>
       \A midi \in OnePitches :
         LET l == OneLane(midi)
             ln == lanes[l]
         IN (ln.active.kind = "chord" /\ ln.chordStart # UNDEF /\ midi \in ln.chordHits
             /\ ln.chordHits # Tones(ln.active))
            => \A strict \in BOOLEAN, nxt \in Spawnable(l) :
                 LET r == OneDispatch(l, ln, midi, strict, nxt)
                 IN r.ln = ln /\ r.g = Globals /\ r.ev = <<>> /\ r.tm = {}
\* with dual-lane mode off, the tone 55 of the chord {55, 59} at the head of
\* piano-core's mono lane has just been pressed again, a chord window after the
\* press that opened the window: nothing was emitted and 55 is still all that
\* is collected
C12_Witness ==
  /\ unit = "core"
  /\ ~piano
  /\ op = "noteOn"
  /\ ev = <<>>
  /\ LET ls == cLanes["mono"]
     IN /\ ls.enabled
        /\ ls.mode = "chord"
        /\ ls.queue # <<>>
        /\ ls.queue[1].kind = "chord"
        /\ ls.chordRT.open
        /\ ls.chordRT.activeId = ls.queue[1].id
        /\ ls.chordRT.collected = {55}
        /\ ls.chordRT.sinceStart >= CHORD_WINDOW_MS

\* C13 - Missing target: in every reachable state, a note-on routed to a lane
\* that holds no target (empty queue, no active target) is a silent no-op in
\* onNoteOn, handleMidiNoteOn and handleNoteOnOneAtATime: no life is lost, no
\* target is created or removed, no timeout is scheduled and nothing is
\* emitted.
C13_NoTargetNoOp ==
  /\ unit = "core" =>
       \A midi \in Pitches :
         LET l == CoreRouteLane(midi, piano)
         IN cLanes[l].queue = <<>> => CoreDispatch(l, cLanes[l], midi) = CoreNoChange(cLanes[l])
  /\ unit = "queue" =>
       \A midi \in Pitches :
         LET l == RoutedClef(midi)
         IN (laneStates[l].present /\ laneStates[l].queue = <<>>)
              => QueueDispatch(l, midi) = QueueNoChange
  /\ unit = "one" =>
       \A midi \in OnePitches :
         LET l == OneLane(midi)
         IN lanes[l].active.kind = "none"
              => \A first \in FirstSpawn(l), strict \in BOOLEAN, nxt \in Spawnable(l) :
                   LET r == OneDispatch(l, SpawnNext(lanes[l], first), midi, strict, nxt)
                   IN r.ln = lanes[l] /\ r.g = Globals /\ r.ev = <<>> /\ r.tm = {}

\* C14 - Chord window invariant (piano-core chordRT, lane-system chordRuntime,
\* midi-integration __chordStart/__chordHits): in every reachable state a
\* lane's one chord window, when open, belongs to the lane's current head
\* target, and that head is a chord. Each lane holds its window in a single
\* field, so there is never more than one.
C14_WindowIsHead ==
  /\ unit = "core" =>
       \A l \in LaneIds :
         cLanes[l].chordRT.open =>
           /\ cLanes[l].queue # <<>>
           /\ cLanes[l].queue[1].kind = "chord"
           /\ cLanes[l].queue[1].id = cLanes[l].chordRT.activeId
  /\ unit = "queue" =>
       \A l \in LaneIds :
         (laneStates[l].present /\ laneStates[l].chordRuntime.open) =>
           /\ laneStates[l].queue # <<>>
           /\ laneStates[l].queue[1].kind = "chord"
           /\ laneStates[l].queue[1].id = laneStates[l].chordRuntime.activeId
  /\ unit = "dispatch" =>
       \A c \in Clefs :
         dChord[c].start # UNDEF =>
           /\ ClefHead(c).kind = "chord"
           /\ ClefHead(c).id = ActiveChordTarget(c).id

\* C15 - Fresh chord window (handleChord_Strict, handleNoteOnOneAtATime,
\* dispatchNoteOn): in every reachable state, a correct tone of the head chord
\* pressed while the lane holds no window for that chord - none is open, or the
\* open one was opened for another target - schedules a timeout for that chord
\* and leaves a window holding that tone alone; tones collected earlier do not
\* count, so a chord of two tones is not completed by the press. A window of
\* handleNoteOnOneAtATime and of dispatchNoteOn, which stores no target id, is
\* the window of the chord whose timeout, taken at the window's start, is
\* pending.
C15_FreshWindow ==
  /\ unit = "queue" =>
       \A midi \in Pitches :
         LET l == RoutedClef(midi)
             ls == laneStates[l]
             r == QueueDispatch(l, midi)
         IN (/\ ls.present /\ ls.enabled /\ ls.queue # <<>>
             /\ ls.queue[1].kind = "chord" /\ midi \in Tones(ls.queue[1])
             /\ Cardinality(Tones(ls.queue[1])) > 1
             /\ ~(ls.chordRuntime.open /\ ls.chordRuntime.activeId = ls.queue[1].id))
            => /\ r.kind = "collect"
               /\ \E tm \in r.tm : tm.lane = l /\ tm.id = ls.queue[1].id
               /\ r.w.lanes[l].chordRuntime.open
               /\ r.w.lanes[l].chordRuntime.activeId = ls.queue[1].id
               /\ r.w.lanes[l].chordRuntime.collected = {midi}
  /\ unit = "one" =>
       \A midi \in OnePitches :
         LET l == OneLane(midi)
         IN \A first \in FirstSpawn(l) :
              LET ln == SpawnNext(lanes[l], first)
                  t == ln.active
                  r == OneDispatch(l, ln, midi, TRUE, NoTarget)
              IN (/\ t.kind = "chord" /\ midi \in Tones(t) /\ Cardinality(Tones(t)) > 1
                  /\ ~(/\ ln.chordStart # UNDEF
                       /\ \E tm \in timers :
                            tm.lane = l /\ tm.id = t.id /\ tm.started = ln.chordStart))
                 => /\ r.kind = "collect"
                    /\ \E tm \in r.tm : tm.lane = l /\ tm.id = t.id
                    /\ r.ln.chordStart # UNDEF
                    /\ r.ln.chordHits = {midi}
  /\ unit = "dispatch" =>
       \A midi \in Pitches :
         LET c == RouteClefByMidi(midi)
             t == ActiveChordTarget(c)
             r == Dispatch(midi)
         IN (/\ gameRunning /\ IsPianoOn /\ LaneAlive(Globals, c) /\ hands[c] = "chord"
             /\ t.kind = "chord" /\ midi \in Tones(t) /\ Cardinality(Tones(t)) > 1
             /\ ~(/\ dChord[c].start # UNDEF
                  /\ \E tm \in timers :
                       tm.lane = c /\ tm.id = t.id /\ tm.started = dChord[c].start))
            => /\ r.kind = "collect"
               /\ \E tm \in r.tm : tm.lane = c /\ tm.id = t.id
               /\ r.ch[c].start # UNDEF
               /\ r.ch[c].hits = {midi}

\* C16 - Single resolution (piano-core popSuccessLane / popFailLane, lane-system
\* removeActiveTargetFromQueue and chordTimeoutCheck): in every reachable
\* state no target has had two outcomes, no target that has had its outcome is
\* still queued, the last step emitted at most one outcome, and every note-on
\* and every due timeout either resolves the head of its lane - removing that
\* one target and nothing else - or removes nothing at all.
C16_SingleResolution ==
  /\ unit \in {"core", "queue"} =>
       /\ twice = {}
       /\ Cardinality(OutcomeIdx(ev)) <= 1
  /\ unit = "core" =>
       /\ \A l \in LaneIds : \A k \in 1..Len(cLanes[l].queue) :
            cLanes[l].queue[k].id \notin resolved
       /\ \A midi \in Pitches :
            LET l == CoreRouteLane(midi, piano)
                r == CoreDispatch(l, cLanes[l], midi)
            IN IF r.kind \in {"success", "fail"}
               THEN cLanes[l].queue # <<>> /\ r.ls.queue = Tail(cLanes[l].queue)
               ELSE r.ls.queue = cLanes[l].queue
       /\ \A tm \in DueTimers :
            LET r == CoreTimeoutResult(cLanes[tm.lane], tm)
            IN IF r.kind = "fail"
               THEN /\ cLanes[tm.lane].queue # <<>>
                    /\ cLanes[tm.lane].queue[1].id = tm.id
                    /\ r.ls.queue = Tail(cLanes[tm.lane].queue)
               ELSE r.ls.queue = cLanes[tm.lane].queue
  /\ unit = "queue" =>
       /\ \A l \in LaneIds : \A k \in 1..Len(laneStates[l].queue) :
            laneStates[l].queue[k].id \notin resolved
       /\ \A midi \in Pitches :
            LET l == RoutedClef(midi)
                r == QueueDispatch(l, midi)
            IN /\ \A l2 \in LaneIds \ {l} : r.w.lanes[l2].queue = laneStates[l2].queue
               /\ IF HasOutcome(r.ev)
                  THEN /\ laneStates[l].queue # <<>>
                       /\ OutcomeIds(r.ev) = {laneStates[l].queue[1].id}
                       /\ Cardinality(OutcomeIdx(r.ev)) = 1
                       /\ r.w.lanes[l].queue = Tail(laneStates[l].queue)
                  ELSE r.w.lanes[l].queue = laneStates[l].queue
       /\ \A tm \in DueTimers :
            LET l == tm.lane
                r == ChordTimeoutResult(tm)
            IN /\ \A l2 \in LaneIds \ {l} : r.w.lanes[l2].queue = laneStates[l2].queue
               /\ IF HasOutcome(r.ev)
                  THEN /\ laneStates[l].queue # <<>>
                       /\ OutcomeIds(r.ev) = {tm.id}
                       /\ laneStates[l].queue[1].id = tm.id
                       /\ Cardinality(OutcomeIdx(r.ev)) = 1
                       /\ r.w.lanes[l].queue = Tail(laneStates[l].queue)
                  ELSE r.w.lanes[l].queue = laneStates[l].queue
\* a chord's timeout has just failed it, after an earlier target of the same
\* lane had its own outcome, and the target queued behind the chord is now the
\* head, still without an outcome
C16_Witness ==
  /\ unit = "queue"
  /\ op = "timeout"
  /\ \E k \in OutcomeIdx(ev) :
       /\ ev[k].n = "fail" /\ ev[k].kind = "chord"
       /\ Cardinality(resolved) >= 2
       /\ laneStates[ev[k].lane].queue # <<>>
       /\ laneStates[ev[k].lane].queue[1].id \notin resolved

\* C17 - One-at-a-time spawn policy (spawnNext, resolveAndRespawn,
\* gameTickLoop): in every reachable state spawnNext leaves a lane that holds
\* an active target as it is, whatever target it would build; a note-on or due
\* timeout that resolves the lane's target leaves the lane holding the one
\* target built for the respawn, with the phrase position of a fresh target, and
\* one that resolves nothing leaves the active target in place; and the lane an
\* outcome was just emitted for holds an active target.
C17_OneAtATime ==
  unit = "one" =>
    /\ \A l \in LaneIds : \A t \in Spawnable(l) :
         lanes[l].active.kind # "none" => SpawnNext(lanes[l], t) = lanes[l]
    /\ \A midi \in OnePitches :
         LET l == OneLane(midi)
         IN \A first \in FirstSpawn(l), strict \in BOOLEAN, nxt \in Spawnable(l) :
              LET ln == SpawnNext(lanes[l], first)
                  r == OneDispatch(l, ln, midi, strict, nxt)
              IN IF r.kind \in {"success", "fail"}
                 THEN /\ r.ln.active = nxt
                      /\ r.ln.phraseIndex = 0
                      /\ r.ln.phraseSize = (IF nxt.kind = "melodyPhrase" THEN Len(nxt.mids) ELSE 0)
                 ELSE r.ln.active = ln.active
    /\ \A tm \in DueTimers : \A nxt \in Spawnable(tm.lane) :
         LET r == OneTimeoutResult(tm, nxt)
         IN IF r.kind = "fail"
            THEN r.ln.active = nxt /\ r.ln.phraseIndex = 0
            ELSE r.ln.active = lanes[tm.lane].active
    /\ \A k \in OutcomeIdx(ev) : lanes[ev[k].lane].active.kind # "none"
\* a chord has just timed out and its lane holds the target respawned for it,
\* while gameTickLoop finds nothing to spawn in that lane
C17_Witness ==
  /\ unit = "one"
  /\ op = "timeout"
  /\ \E k \in OutcomeIdx(ev) :
       /\ ev[k].n = "fail" /\ ev[k].kind = "chord"
       /\ lanes[ev[k].lane].active.kind # "none"
       /\ lanes[ev[k].lane].active.id # ev[k].id
       /\ \A t \in Spawnable(ev[k].lane) :
            SpawnNext(lanes[ev[k].lane], t) = lanes[ev[k].lane]

\* C18 - Constant movement speed (speedForLevel, spawnNext): in every
\* reachable state, the speed spawnNext would hand to a target spawned now into
\* a lane equals the speed it handed to the lane's previous target, whatever
\* the level has become in between; the speed does not depend on the target's
\* kind, which spawnNext does not pass to speedForLevel.
C18_ConstantSpeed ==
  unit = "levels" =>
    \A l \in LaneIds :
      laneSpeed[l] # UNDEF => SpeedForLevel(EffectiveLevel(gameLevel)) = laneSpeed[l]

\* C19 - Spawn cadence (initializeLanes, piano-core init): in every reachable
\* state, at the current level the chord spawn interval of a lane is exactly
\* 1.25 times its melody spawn interval, in lane-system and in piano-core's
\* default cadence alike; the melody interval is not below its floor (800 ms
\* and 300 ms) and does not grow when the level goes up by one.
C19_Cadence ==
  unit = "levels" =>
    /\ 4 * cadence.coreChord = 5 * cadence.coreMelody
    /\ cadence.chordQ = 5 * cadence.melody
    /\ cadence.melody >= 800
    /\ cadence.coreMelody >= 300
    /\ Cadence(gameLevel + 1).melody <= cadence.melody
    /\ Cadence(gameLevel + 1).coreMelody <= cadence.coreMelody

\* C20 - Failure reasons (piano-core evalMelody / evalChord,
\* handleNoteOnOneAtATime, dispatchNoteOn): in every reachable state, each fail
\* notified by the last step carries one of the three reasons
\* melody-wrong-note, chord-stray and chord-timeout.
C20_FailReasons ==
  unit \in {"core", "one", "dispatch"} =>
    \A k \in 1..Len(ev) :
      ev[k].n = "fail" => ev[k].why \in {"melody-wrong-note", "chord-stray", "chord-timeout"}

\* C21 - Empty chord (piano-core evalChord, lane-system handleChord_Strict): in
\* every reachable state, no note-on routed to a lane whose head is a chord
\* without pitches, and no due timeout of that lane, resolves the head as
\* success: where the chord rule is applied the note fails the chord as a stray
\* and costs one life, and the results of both handlers are defined.
C21_EmptyChord ==
  /\ unit = "core" =>
       /\ \A midi \in Pitches :
            LET l == CoreRouteLane(midi, piano)
                ls == cLanes[l]
                r == CoreDispatch(l, ls, midi)
            IN (ls.queue # <<>> /\ ls.queue[1].kind = "chord" /\ Tones(ls.queue[1]) = {})
               => /\ r.kind # "success"
                  /\ (ls.enabled /\ ls.mode = "chord")
                       => /\ r.kind = "fail" /\ r.why = "chord-stray"
                          /\ r.ls.lives = ls.lives - 1
                          /\ r.ls.queue = Tail(ls.queue)
       /\ \A tm \in DueTimers :
            LET ls == cLanes[tm.lane]
            IN (ls.queue # <<>> /\ ls.queue[1].kind = "chord" /\ Tones(ls.queue[1]) = {})
               => CoreTimeoutResult(ls, tm).kind # "success"
  /\ unit = "queue" =>
       /\ \A midi \in Pitches :
            LET l == RoutedClef(midi)
                ls == laneStates[l]
                r == QueueDispatch(l, midi)
            IN (/\ ls.present /\ ls.queue # <<>>
                /\ ls.queue[1].kind = "chord" /\ Tones(ls.queue[1]) = {})
               => /\ r.kind # "success"
                  /\ \A k \in 1..Len(r.ev) : r.ev[k].n # "success"
                  /\ ls.enabled => /\ r.kind = "fail"
                                   /\ r.w.lanes[l].queue = Tail(ls.queue)
                                   /\ r.w.lanes[l].lives = ls.lives - 1
       /\ \A tm \in DueTimers :
            LET ls == laneStates[tm.lane]
            IN (/\ ls.present /\ ls.queue # <<>>
                /\ ls.queue[1].kind = "chord" /\ Tones(ls.queue[1]) = {})
               => ChordTimeoutResult(tm).kind # "success"
\* a note-on has just failed the chord without pitches at the head of the bass
\* lane as a stray, and no target has had a success
C21_Witness ==
  /\ feed = "edge"
  /\ op = "noteOn"
  /\ \E k \in 1..Len(ev) :
       /\ ev[k].n = "fail" /\ ev[k].kind = "chord" /\ ev[k].lane = "bass"
  /\ \A k \in 1..Len(ev) : ev[k].n # "success"

\* C22 - Single-tone chord (piano-core evalChord, lane-system
\* handleChord_Strict): in every reachable state, when the head of an enabled
\* lane is a chord with exactly one distinct pitch P, a note-on with pitch P
\* routed to the lane resolves it as success at once without costing a life, a
\* note-on with any other pitch routed to the lane fails it and costs one life,
\* and a due timeout scheduled for a chord of one pitch changes nothing.
C22_SingleToneChord ==
  /\ unit = "core" =>
       /\ \A midi \in Pitches :
            LET l == CoreRouteLane(midi, piano)
                ls == cLanes[l]
                r == CoreDispatch(l, ls, midi)
            IN (/\ ls.enabled /\ ls.queue # <<>> /\ ls.queue[1].kind = "chord"
                /\ Cardinality(Tones(ls.queue[1])) = 1)
               => /\ r.ls.queue = Tail(ls.queue)
                  /\ ~r.ls.chordRT.open
                  /\ IF midi \in Tones(ls.queue[1])
                     THEN r.kind = "success" /\ r.ls.lives = ls.lives
                     ELSE r.kind = "fail" /\ r.ls.lives = ls.lives - 1
       /\ \A tm \in DueTimers :
            Cardinality(tm.tones) = 1
              => CoreTimeoutResult(cLanes[tm.lane], tm) = CoreNoChange(cLanes[tm.lane])
  /\ unit = "queue" =>
       /\ \A midi \in Pitches :
            LET l == RoutedClef(midi)
                ls == laneStates[l]
                r == QueueDispatch(l, midi)
            IN (/\ ls.present /\ ls.enabled /\ ls.queue # <<>>
                /\ ls.queue[1].kind = "chord" /\ Cardinality(Tones(ls.queue[1])) = 1)
               => /\ r.w.lanes[l].queue = Tail(ls.queue)
                  /\ ~r.w.lanes[l].chordRuntime.open
                  /\ IF midi \in Tones(ls.queue[1])
                     THEN r.kind = "success" /\ r.w.lanes[l].lives = ls.lives
                     ELSE r.kind = "fail" /\ r.w.lanes[l].lives = ls.lives - 1
       /\ \A tm \in DueTimers :
            Cardinality(tm.tones) = 1 => ChordTimeoutResult(tm) = QueueNoChange

\* C23 - Enabled flag (piano-core init and popFailLane, lane-system
\* decrementLives and _stopAtZeroGuards): in every reachable state the enabled
\* flag of every lane equals (lives > 0).
C23_EnabledIffLives ==
  /\ unit = "core" =>
       \A l \in LaneIds : cLanes[l].enabled = (cLanes[l].lives > 0)
  /\ unit = "queue" =>
       \A l \in LaneIds :
         laneStates[l].present => laneStates[l].enabled = (laneStates[l].lives > 0)

\* C24 - Melody rule of the one-at-a-time evaluator (matchesTarget,
\* handleNoteOnOneAtATime): in every reachable state, for either value of
\* settings.strictOctave, a note-on that reaches a lane whose active target is
\* a melody of pitch T resolves it as success only if the pressed pitch is T,
\* and every other pitch fails it at once.
C24_OneMelodyExact ==
  unit = "one" =>
    \A midi \in OnePitches :
      LET l == OneLane(midi)
      IN \A first \in FirstSpawn(l), strict \in BOOLEAN :
           LET ln == SpawnNext(lanes[l], first)
               t == ln.active
               r == OneDispatch(l, ln, midi, strict, NoTarget)
           IN t.kind = "melody"
                => /\ r.kind = "success" => midi = t.midi
                   /\ midi # t.midi => r.kind = "fail"

\* C25 - Chord window length (piano-core evalChord, lane-system
\* handleChord_Strict): in every reachable state, a note-on routed to a lane
\* whose head chord has had its window open for more than CHORD_WINDOW_MS does
\* not resolve that chord as success.
C25_NoLateSuccess ==
  /\ unit = "core" =>
       \A midi \in Pitches :
         LET l == CoreRouteLane(midi, piano)
             ls == cLanes[l]
         IN (/\ ls.queue # <<>> /\ ls.queue[1].kind = "chord"
             /\ ls.chordRT.open /\ ls.chordRT.activeId = ls.queue[1].id
             /\ ls.chordRT.sinceStart > CHORD_WINDOW_MS)
            => CoreDispatch(l, ls, midi).kind # "success"
  /\ unit = "queue" =>
       \A midi \in Pitches :
         LET l == RoutedClef(midi)
             ls == laneStates[l]
         IN (/\ ls.present /\ ls.queue # <<>> /\ ls.queue[1].kind = "chord"
             /\ ls.chordRuntime.open /\ ls.chordRuntime.activeId = ls.queue[1].id
             /\ ls.chordRuntime.sinceStart > CHORD_WINDOW_MS)
            => QueueDispatch(l, midi).kind # "success"

\* C26 - Note-on and timeout due together (handleChord_Strict /
\* chordTimeoutCheck, piano-core evalChord): in every reachable state where the
\* timeout of a lane's head chord is due but has not run, and the open window
\* of that chord misses exactly one tone, the note-on of that tone resolves the
\* chord as success, and the timeout run on the lane it leaves changes nothing.
C26_NoteOnBeforeTimeout ==
  /\ unit = "core" =>
       \A midi \in Pitches : \A tm \in DueTimers :
         LET l == CoreRouteLane(midi, piano)
             ls == cLanes[l]
             r == CoreDispatch(l, ls, midi)
         IN (/\ tm.lane = l /\ ls.enabled
             /\ ls.queue # <<>> /\ ls.queue[1].kind = "chord" /\ ls.queue[1].id = tm.id
             /\ ls.chordRT.open /\ ls.chordRT.activeId = tm.id
             /\ Tones(ls.queue[1]) \ ls.chordRT.collected = {midi})
            => /\ r.kind = "success"
               /\ CoreTimeoutResult(r.ls, tm) = CoreNoChange(r.ls)
  /\ unit = "queue" =>
       \A midi \in Pitches : \A tm \in DueTimers :
         LET l == RoutedClef(midi)
             ls == laneStates[l]
             r == QueueDispatch(l, midi)
         IN (/\ tm.lane = l /\ ls.present /\ ls.enabled
             /\ ls.queue # <<>> /\ ls.queue[1].kind = "chord" /\ ls.queue[1].id = tm.id
             /\ ls.chordRuntime.open /\ ls.chordRuntime.activeId = tm.id
             /\ Tones(ls.queue[1]) \ ls.chordRuntime.collected = {midi})
            => /\ r.kind = "success"
               /\ ChordTimeoutStale(r.w.lanes[l], tm)

\* C27 - Reinitialization gives a fresh session (piano-core init, lane-system
\* initializeLanes): in every reachable state, the lanes that init called
\* without lives options, and initializeLanes, would leave have an empty queue,
\* no chord window, START_LIVES lives and are enabled, and every timeout still
\* pending changes nothing when run on them.
C27_FreshSession ==
  /\ unit = "core" =>
       \A l \in LaneIds :
         LET ls == CoreInitLane(cLanes[l], UNDEF, "absent")
         IN /\ ls.queue = <<>> /\ ls.chordRT = NoRT
            /\ ls.lives = START_LIVES /\ ls.enabled
            /\ \A tm \in timers : tm.lane = l => CoreTimeoutResult(ls, tm) = CoreNoChange(ls)
  /\ unit = "queue" =>
       \A l \in InPlay(IsPianoOn) :
         LET ls == InitializedLanes(IsPianoOn)[l]
         IN /\ ls.present /\ ls.queue = <<>> /\ ~ls.chordRuntime.open
            /\ ls.lives = START_LIVES /\ ls.enabled
            /\ \A tm \in timers : tm.lane = l => ChordTimeoutStale(ls, tm)

\* C28 - Generated pitches stay in range (nextMelodyTargetInRange,
\* nextSingleNoteInRange, nextChordTargetInRange, nextChordInRange): after
\* every generator call, each pitch it returned lies in the inclusive range
\* [min, max] it was called for.
C28_PitchesInRange ==
  generated.fn # "none" =>
    \A i \in 1..Len(generated.mids) :
      generated.mids[i] >= generated.min /\ generated.mids[i] <= generated.max
\* a melody generator returned the upper end of its range, where the clamp acts
C28_Witness ==
  /\ generated.fn = "nextMelodyTargetInRange"
  /\ generated.mids = <<generated.max>>
  /\ generated.max > generated.min

\* C29 - Generated chords are well formed (nextChordTargetInRange,
\* pickChordRootInRange / buildTriad / fitChordToRange, nextChordInRange):
\* after every chord generator call, the pitch list it returned has no
\* duplicates and between 1 and 3 pitches.
C29_ChordWellFormed ==
  generated.fn \in {"nextChordInRange", "nextChordTargetInRange"} =>
    /\ Len(generated.mids) >= 1 /\ Len(generated.mids) <= 3
    /\ \A i, j \in 1..Len(generated.mids) : generated.mids[i] = generated.mids[j] => i = j
\* a chord generator dropped a tone that no octave puts in range
C29_Witness ==
  /\ generated.fn = "nextChordTargetInRange"
  /\ Len(generated.mids) < 3

\* C30 - The head target's kind selects the rule (piano-core evalMelody /
\* evalChord / onNoteOn / setLaneMode, lane-system handleMidiNoteOn): in every
\* reachable state, a note-on routed to an enabled lane with a non-empty queue
\* gets the melody rule if the head is a melody and the chord rule if it is a
\* chord, whatever the lane's mode, and is never ignored.
C30_HeadKindSelectsRule ==
  /\ unit = "core" =>
       \A midi \in Pitches :
         LET l == CoreRouteLane(midi, piano)
             ls == cLanes[l]
             r == CoreDispatch(l, ls, midi)
         IN (ls.enabled /\ ls.queue # <<>>)
            => /\ r.kind # "none"
               /\ r = IF ls.queue[1].kind = "melody"
                      THEN CoreEvalMelody(l, ls, midi)
                      ELSE CoreEvalChord(l, ls, midi)
  /\ unit = "queue" =>
       \A midi \in Pitches :
         LET l == RoutedClef(midi)
             ls == laneStates[l]
             r == QueueDispatch(l, midi)
         IN (ls.present /\ ls.enabled /\ ls.queue # <<>>)
            => /\ r.kind # "none"
               /\ r = IF ls.queue[1].kind = "melody"
                      THEN HandleMelodyStrict(l, midi, ls.queue[1])
                      ELSE HandleChordStrict(l, midi, ls.queue[1])

\* C31 - The queued evaluators agree (piano-core onNoteOn, lane-system
\* handleMidiNoteOn): started from the same lanes and fed the same pushes,
\* note-ons and timeout firings, with every lane's mode matching the kind of
\* its targets, every lane in play has the same lives, enabled flag, queue and
\* chord window in both after every step.
C31_SameLanes ==
  (unit = "both" /\ op # "load") =>
    \A l \in InPlay(piano) :
      /\ laneStates[l].present
      /\ cLanes[l].lives = laneStates[l].lives
      /\ cLanes[l].enabled = laneStates[l].enabled
      /\ cLanes[l].queue = laneStates[l].queue
      /\ cLanes[l].chordRT.open = laneStates[l].chordRuntime.open
      /\ cLanes[l].chordRT.activeId = laneStates[l].chordRuntime.activeId
      /\ cLanes[l].chordRT.collected = laneStates[l].chordRuntime.collected
\* both evaluators have just failed a chord by its timeout and disabled its lane
C31_Witness ==
  /\ unit = "both"
  /\ op = "timeout"
  /\ Cardinality({k \in 1..Len(ev) : ev[k].n = "fail"}) = 2
  /\ \E l \in InPlay(piano) : ~cLanes[l].enabled /\ ~laneStates[l].enabled

\* C32 - One note, one evaluation (initializeMidiIntegration's onNoteInput
\* callback, dispatchNoteOn, handleNoteOnOneAtATime): when the callback has
\* finished with a note, that note has produced at most one outcome and the
\* lane it is routed to has lost at most one life since the callback began.
C32_OneEvaluation ==
  inFlight.stage = "done" =>
    LET l == OneLane(inFlight.midi) IN
    /\ Cardinality(OutcomeIdx(inFlight.ev)) <= 1
    /\ OneLives(inFlight.g, l) - OneLives(Globals, l) <= 1

GameOverIn(es) == \E k \in 1..Len(es) : es[k].n = "gameOver"
\* lanes in play that still evaluate notes, by the evaluator's own test
CoreAlive(cl) == {l \in InPlay(piano) : cl[l].enabled}
QueueAlive(ls) == {l \in InPlay(IsPianoOn) : ls[l].present /\ ls[l].enabled}
OneAlive(g) == {l \in LaneForPlay : OneLives(g, l) > 0}
DispatchAlive(g) == {c \in Clefs : LaneAlive(g, c)}

\* C33 - Game over fires once (piano-core popFailLane, lane-system
\* _stopAtZeroGuards and decrementLivesForLane, midi-integration
\* _afterLifeChangeStopIfNeeded): in every reachable state, a note-on or a due
\* timeout that notifies game-over starts with some lane in play still alive
\* and leaves none alive, so that no later step can notify it again.
C33_GameOverOnce ==
  /\ unit = "core" =>
       /\ \A midi \in Pitches :
            LET l == CoreRouteLane(midi, piano)
                r == CoreDispatch(l, cLanes[l], midi)
                after == [cLanes EXCEPT ![l] = r.ls]
            IN (r.kind = "fail" /\ GameOverIn(CoreFailEvents(l, cLanes[l].queue[1], r.why, after)))
               => CoreAlive(cLanes) # {} /\ CoreAlive(after) = {}
       /\ \A tm \in DueTimers :
            LET l == tm.lane
                r == CoreTimeoutResult(cLanes[l], tm)
                after == [cLanes EXCEPT ![l] = r.ls]
            IN (r.kind = "fail" /\ GameOverIn(CoreFailEvents(l, cLanes[l].queue[1], r.why, after)))
               => CoreAlive(cLanes) # {} /\ CoreAlive(after) = {}
  /\ unit = "queue" =>
       /\ \A midi \in Pitches :
            LET r == QueueDispatch(RoutedClef(midi), midi)
            IN GameOverIn(r.ev) => QueueAlive(laneStates) # {} /\ QueueAlive(r.w.lanes) = {}
       /\ \A tm \in DueTimers :
            LET r == ChordTimeoutResult(tm)
            IN GameOverIn(r.ev) => QueueAlive(laneStates) # {} /\ QueueAlive(r.w.lanes) = {}
  /\ unit = "one" =>
       /\ \A midi \in OnePitches : \A first \in FirstSpawn(OneLane(midi)) :
            \A strict \in StrictOpts(midi, first) :
              LET l == OneLane(midi)
                  r == OneDispatch(l, SpawnNext(lanes[l], first), midi, strict, NoTarget)
              IN GameOverIn(r.ev) => OneAlive(Globals) # {} /\ OneAlive(r.g) = {}
       /\ \A tm \in DueTimers :
            LET r == OneTimeoutResult(tm, NoTarget)
            IN GameOverIn(r.ev) => OneAlive(Globals) # {} /\ OneAlive(r.g) = {}
  /\ unit = "dispatch" =>
       /\ \A midi \in Pitches :
            LET r == Dispatch(midi)
            IN GameOverIn(r.ev) => DispatchAlive(Globals) # {} /\ DispatchAlive(r.g) = {}
       /\ \A tm \in DueTimers :
            LET r == DispatchTimeoutResult(tm)
            IN GameOverIn(r.ev) => DispatchAlive(Globals) # {} /\ DispatchAlive(r.g) = {}

\* a timer of lane l scheduled for the chord that is now the head of queue q
HeadTimers(l, q) ==
  IF q = <<>> \/ q[1].kind # "chord" THEN {}
  ELSE {tm \in timers : tm.lane = l /\ tm.id = q[1].id}
DispatchHeadTimers(c) ==
  {tm \in timers : tm.lane = c /\ ActiveChordTarget(c).kind # "none"
                   /\ tm.id = ActiveChordTarget(c).id}
CoreWindowOpen(ls) ==
  ls.queue # <<>> /\ ls.queue[1].kind = "chord" /\ ls.chordRT.open
  /\ ls.chordRT.activeId = ls.queue[1].id
QueueWindowOpen(ls) ==
  ls.present /\ ls.queue # <<>> /\ ls.queue[1].kind = "chord" /\ ls.chordRuntime.open
  /\ ls.chordRuntime.activeId = ls.queue[1].id
DispatchWindowOpen(c) ==
  ActiveChordTarget(c).kind # "none" /\ dChord[c].start # UNDEF

\* C34 - a chord whose window has been opened does not stay the head of its lane:
\* while its window is open a timeout of that chord is pending, and a timeout that
\* fires while the chord it was scheduled for is still the head fails that chord
C34_WindowResolved ==
  /\ unit = "core" =>
       \A l \in LaneIds :
         /\ CoreWindowOpen(cLanes[l]) => HeadTimers(l, cLanes[l].queue) # {}
         /\ \A tm \in HeadTimers(l, cLanes[l].queue) :
              Due(tm) => CoreTimeoutResult(cLanes[l], tm).kind = "fail"
  /\ unit = "queue" =>
       \A l \in LaneIds :
         /\ QueueWindowOpen(laneStates[l]) => HeadTimers(l, laneStates[l].queue) # {}
         /\ \A tm \in HeadTimers(l, laneStates[l].queue) :
              Due(tm) => ChordTimeoutResult(tm).kind = "fail"
  /\ unit = "dispatch" =>
       \A c \in Clefs :
         /\ DispatchWindowOpen(c) => DispatchHeadTimers(c) # {}
         /\ \A tm \in DispatchHeadTimers(c) :
              Due(tm) => DispatchTimeoutResult(tm).kind = "fail"

\* C35 - In dual-lane mode every generated target routes back to its own lane
\* (laneRange / nextSingleNoteInRange / nextChordInRange, routeClef): after every
\* call of a lane-taking generator for the bass or the treble lane while piano
\* mode is on, each pitch returned is routed by routeClef to that lane, that is
\* bass pitches are <= 59 and treble pitches >= 60.
C35_RoutesBack ==
  (PianoOn /\ generated.lane \in {"bass", "treble"}) =>
    \A i \in 1..Len(generated.mids) :
      /\ RouteClef(generated.mids[i]) = generated.lane
      /\ generated.lane = "bass" => generated.mids[i] <= 59
      /\ generated.lane = "treble" => generated.mids[i] >= 60
\* a treble chord was generated on the lowest root, at the split point
C35_Witness ==
  /\ PianoOn
  /\ generated.fn = "nextChordInRange"
  /\ generated.lane = "treble"
  /\ Len(generated.mids) = 3
  /\ generated.mids[1] = TREBLE_MIN

\* the queue of lane l in the evaluator that is running
QueueOf(l) == IF unit = "core" THEN cLanes[l].queue ELSE laneStates[l].queue
\* the outcomes notified for lane l among es
LaneOutcomes(es, l) == {k \in OutcomeIdx(es) : es[k].lane = l}
\* q2 is q with one target appended
Appended(q, q2) == Len(q2) = Len(q) + 1 /\ SubSeq(q2, 1, Len(q)) = q

\* C36 - Resolution removes only the head (piano-core pushTarget / popSuccessLane
\* / popFailLane, lane-system removeActiveTargetFromQueue / activeTarget /
\* spawnTarget): in every step other than a (re)initialization, a lane for which
\* an outcome is notified had that target at its head and keeps exactly the rest
\* of its queue, in order and unaltered; any other lane's queue is unchanged or
\* has one target appended at its tail.
C36_HeadOnly ==
  [][(unit \in {"core", "queue"} /\ op' # "init") =>
       \A l \in LaneIds :
         IF LaneOutcomes(ev', l) # {}
         THEN /\ QueueOf(l) # <<>>
              /\ \A k \in LaneOutcomes(ev', l) : ev'[k].id = QueueOf(l)[1].id
              /\ QueueOf(l)' = Tail(QueueOf(l))
         ELSE QueueOf(l)' = QueueOf(l) \/ Appended(QueueOf(l), QueueOf(l)')]_vars
\* a head was failed in the lane-system queue and the target spawned after it
\* is the new head
C36_Witness ==
  /\ unit = "queue"
  /\ \E l \in LaneIds :
       /\ laneStates[l].queue # <<>>
       /\ \E k \in LaneOutcomes(ev, l) :
            ev[k].n = "fail" /\ ev[k].id < laneStates[l].queue[1].id

\* the names of the notifications es, in order
EventNames(es) == [k \in 1..Len(es) |-> es[k].n]
\* what a fail of lane l's head must notify, given the lanes after it
FailNamesFor(l, after) ==
  <<"lives", "fail">>
  \o (IF after[l].lives = 0 THEN <<"laneDisabled">> ELSE <<>>)
  \o (IF \A l2 \in InPlay(piano) : ~after[l2].enabled THEN <<"gameOver">> ELSE <<>>)
\* the notifications of the fail r of lane l's head are the expected ones, and
\* each is made with the head gone and the life taken
FailOrderOk(l, r) ==
  LET after == [cLanes EXCEPT ![l] = r.ls]
      t == cLanes[l].queue[1]
      es == CoreFailEvents(l, t, r.why, after)
  IN /\ EventNames(es) = FailNamesFor(l, after)
     /\ \A k \in 1..Len(es) :
          /\ es[k].lives = cLanes[l].lives - 1
          /\ es[k].id = t.id
          /\ es[k].lane = l
     /\ r.ls.queue = Tail(cLanes[l].queue)
     /\ r.ls.lives = cLanes[l].lives - 1

\* C37 - Order of the fail notifications in piano-core (popFailLane): for every
\* note-on and every due timeout that fails a head, the callbacks are
\* lives-changed, fail, lane-disabled exactly if the lane's lives reached 0, and
\* game-over exactly if no lane in play is enabled any more, in that order, and
\* all of them see the head removed and the lives one lower.
C37_FailOrder ==
  unit = "core" =>
    /\ \A midi \in Pitches :
         LET l == CoreRouteLane(midi, piano)
             r == CoreDispatch(l, cLanes[l], midi)
         IN r.kind = "fail" => FailOrderOk(l, r)
    /\ \A tm \in DueTimers :
         LET r == CoreTimeoutResult(cLanes[tm.lane], tm)
         IN r.kind = "fail" => FailOrderOk(tm.lane, r)
\* a fail in dual-lane mode took the last life of the last enabled lane: all
\* four notifications were made
C37_Witness ==
  /\ unit = "core"
  /\ piano
  /\ op \in {"noteOn", "timeout"}
  /\ EventNames(ev) = <<"lives", "fail", "laneDisabled", "gameOver">>
  /\ \A l \in InPlay(piano) : ~cLanes[l].enabled
====
